---- MODULE Spec2Model ----
(***************************************************************************)
(* Model of the multimodal RAG core of Intelli_GPT:                        *)
(*   - IngestionPipeline.ingest_pdf  (app/pipelines/ingestion_pipeline.py)  *)
(*   - TextEmbeddingService          (app/services/embeddings)              *)
(*   - QdrantRepository upserts      (app/services/vectordb_qdrant)         *)
(*   - QueryPipeline._normalize_scores (app/pipelines/query_pipeline.py)    *)
(*   - QueryPipeline.answer_question (app/pipelines/query_pipeline.py)      *)
(*   - QdrantRepository searches     (app/services/vectordb_qdrant)         *)
(*   - payload builders              (vectordb_qdrant/schema.py)            *)
(*   - ensure_collections_exist      (vectordb_qdrant/collections.py)       *)
(*   - client singletons             (app/infra)                            *)
(*                                                                         *)
(* Strings whose content matters are sequences of one-character strings;   *)
(* an exception message is the sequence of its words, and Python's         *)
(* substring test `"X" in msg` is membership of the word X.                *)
(* An embedding vector is kept as its length, the set of positions of its  *)
(* non-zero components (its norm is zero iff that set is empty) and the    *)
(* content it embeds.                                                      *)
(***************************************************************************)
EXTENDS Integers, Sequences, FiniteSets, TLC

VARIABLES
    pc,               \* control point of the running operation
    api_key_present,  \* GEMINI_API_KEY / GOOGLE_API_KEY resolvable
    pdf_id,           \* argument of ingest_pdf
    text_blocks,      \* parser output: one block per page
    image_blocks,     \* parser output: one block per kept image
    text_points,      \* local of ingest_pdf
    image_points,     \* local of ingest_pdf
    s3_keys,          \* local of ingest_pdf
    calls,            \* every collaborator call made so far, in order
    store_text,       \* points held by the text collection
    store_image,      \* points held by the image collection
    s3_objects,       \* keys held by the bucket
    error,            \* the exception that left the operation, or NoError
    next_uuid,        \* source of uuid4() values
    clock,            \* source of _now_iso() values
    scores,           \* argument of _normalize_scores
    norm_out,         \* its return value
    question,         \* argument of answer_question
    generator,        \* self.answer_generator, as __init__ left it
    client,           \* the vector-DB client held by the repository
    text_vec,         \* local of answer_question
    image_query_vec,  \* local of answer_question
    text_hits,        \* local of answer_question
    image_hits,       \* local of answer_question
    images_resp,      \* local of answer_question
    response,         \* value returned by answer_question
    search_ret,       \* value returned by search_text / search_images
    collections,      \* the server's collections and their payload indexes
    accessor,         \* which infra module's _init_client the threads call
    global_client,    \* the module global _client / _s3_client (0 is None)
    bucket_name,      \* the module global _bucket_name is set
    tpc,              \* control point of each thread inside _init_client
    tlocal,           \* the instance a thread has constructed (0: none)
    tret,             \* what _init_client returned to each thread (0: not yet)
    constructions     \* number of client instances constructed so far

vars == <<pc, api_key_present, pdf_id, text_blocks, image_blocks, text_points,
          image_points, s3_keys, calls, store_text, store_image, s3_objects,
          error, next_uuid, clock, scores, norm_out, question, generator, client,
          text_vec, image_query_vec, text_hits, image_hits, images_resp,
          response, search_ret, collections, accessor, global_client, bucket_name,
          tpc, tlocal, tret, constructions>>

ingestVars == <<api_key_present, pdf_id, text_blocks, image_blocks, text_points,
                image_points, s3_keys, s3_objects, next_uuid, clock>>

normVars == <<scores, norm_out>>

queryVars == <<question, generator, client, text_vec, image_query_vec, text_hits,
               image_hits, images_resp, response, search_ret>>

dbVars == <<collections>>

singletonVars == <<accessor, global_client, bucket_name, tpc, tlocal, tret, constructions>>

(***************************************************************************)
(* Bounds of the model                                                     *)
(***************************************************************************)
MaxPages == 2
MaxImages == 2
MaxScores == 3
MaxBatch == 2
MaxRepoCalls == 2
MaxBuildCalls == 2
MaxEnsureCalls == 2
MaxThreads == 2

(***************************************************************************)
(* Program constants                                                       *)
(***************************************************************************)
TextDim == 1024
ImageDim == 768
PreviewLimit == 500

TextCollection == "text_chunks"
ImageCollection == "images"
TextModelName == "text-embedding-004"
ImageModelName == "openclip-ViT-L-14-openai"
BASE_PREFIX == "images"

NoError == [kind |-> "none", type |-> "none", msg |-> <<>>]

(* Python's None                                                           *)
NoneValue == [none |-> TRUE]

NoResponse == [returned |-> FALSE]

NoClient ==
    [methods |-> {}, filter_name |-> "query_filter", vector_name |-> "query",
     wraps |-> FALSE, complaint |-> "TypeError"]

IndexFields == {"source_pdf_id", "page_number", "tags"}

(* both collections as ensure_collections_exist creates them               *)
ReadyCollections ==
    [c \in {TextCollection, ImageCollection} |->
        [exists |-> TRUE, indexes |-> {"source_pdf_id", "page_number"}]]

(* a server that is set up, and no thread inside an _init_client           *)
NoInfra ==
    /\ collections = ReadyCollections
    /\ accessor = "none"
    /\ global_client = 0
    /\ bucket_name = FALSE
    /\ tpc = <<>>
    /\ tlocal = <<>>
    /\ tret = <<>>
    /\ constructions = 0

(* no answer_question and no search is running                             *)
NoQuery ==
    /\ question = [is_str |-> TRUE, chars |-> <<>>]
    /\ generator = "none"
    /\ client = NoClient
    /\ text_vec = <<>>
    /\ image_query_vec = <<>>
    /\ text_hits = <<>>
    /\ image_hits = <<>>
    /\ images_resp = <<>>
    /\ response = NoResponse
    /\ search_ret = <<>>

(***************************************************************************)
(* Generic helpers                                                         *)
(***************************************************************************)
Range(s) == {s[i] : i \in 1..Len(s)}

MinOf(a, b) == IF a <= b THEN a ELSE b

SeqsUpTo(S, n) == UNION {[1..k -> S] : k \in 0..n}

(***************************************************************************)
(* Python str operations used by the pipeline                              *)
(***************************************************************************)
Whitespace == {" ", "\n", "\t"}

RECURSIVE LStrip(_)
LStrip(t) == IF t # <<>> /\ Head(t) \in Whitespace THEN LStrip(Tail(t)) ELSE t

RECURSIVE RStrip(_)
RStrip(t) ==
    IF t # <<>> /\ t[Len(t)] \in Whitespace
    THEN RStrip(SubSeq(t, 1, Len(t) - 1))
    ELSE t

NoStrip(t) == t

Strip(t) == RStrip(LStrip(t))

DigitChars == <<"0", "1", "2", "3", "4", "5", "6", "7", "8", "9">>

RECURSIVE ToDecimal(_)
ToDecimal(n) ==
    IF n < 10
    THEN <<DigitChars[n + 1]>>
    ELSE Append(ToDecimal(n \div 10), DigitChars[(n % 10) + 1])

WholeSequence(t, n) == t

Prefix(t, n) == SubSeq(t, 1, MinOf(Len(t), n))

(***************************************************************************)
(* Exceptions                                                              *)
(***************************************************************************)
MissingKeyError ==
    [kind |-> "credentials_missing", type |-> "ValueError",
     msg |-> <<"GEMINI_API_KEY", "or", "GOOGLE_API_KEY", "is", "missing">>]

ZeroNormError ==
    [kind |-> "zero_norm", type |-> "ValueError",
     msg |-> <<"Received", "zero-norm", "embedding">>]

MalformedResponseError ==
    [kind |-> "malformed_response", type |-> "RuntimeError",
     msg |-> <<"Embedding", "response", "missing", "'embedding'", "field">>]

TextCountMismatchError ==
    [kind |-> "count_mismatch", type |-> "RuntimeError",
     msg |-> <<"Mismatch", "between", "text", "blocks", "and", "embeddings", "count">>]

ImageCountMismatchError ==
    [kind |-> "count_mismatch", type |-> "RuntimeError",
     msg |-> <<"Mismatch", "between", "image", "blocks", "and", "embeddings", "count">>]

ZeroNormImageError ==
    [kind |-> "zero_norm", type |-> "ValueError",
     msg |-> <<"Received", "zero-norm", "image", "embedding">>]

(* Errors raised by the embedding SDK call; their text is the server's or   *)
(* the SDK's, and may name the key variable without the key being absent.   *)
ApiErrors ==
    { [kind |-> "network", type |-> "ConnectionError",
       msg |-> <<"connection", "reset">>],
      [kind |-> "server_error", type |-> "ServerError",
       msg |-> <<"503", "UNAVAILABLE">>],
      [kind |-> "auth_rejected", type |-> "ClientError",
       msg |-> <<"403", "PERMISSION_DENIED">>],
      [kind |-> "auth_rejected", type |-> "ClientError",
       msg |-> <<"403", "key", "in", "GEMINI_API_KEY", "rejected">>] }

ImageDecodeError ==
    [kind |-> "decode", type |-> "UnidentifiedImageError",
     msg |-> <<"cannot", "identify", "image", "file">>]

StorageError ==
    [kind |-> "storage", type |-> "ClientError",
     msg |-> <<"PutObject", "failed">>]

VectorDbError ==
    [kind |-> "vectordb", type |-> "UnexpectedResponse",
     msg |-> <<"upsert", "failed">>]

ParseError ==
    [kind |-> "parse", type |-> "FileDataError",
     msg |-> <<"cannot", "open", "broken", "document">>]

PdfBytesTypeError ==
    [kind |-> "validation", type |-> "TypeError",
     msg |-> <<"pdf_bytes", "must", "be", "bytes", "or", "bytearray">>]

PdfIdValueError ==
    [kind |-> "validation", type |-> "ValueError",
     msg |-> <<"pdf_id", "must", "be", "a", "non-empty", "string">>]

(***************************************************************************)
(* TextEmbeddingService (text_embeddings.py)                               *)
(***************************************************************************)
Ok(v) == [ok |-> TRUE, vector |-> v, error |-> NoError]

Fail(v, e) == [ok |-> FALSE, vector |-> v, error |-> e]

(* _normalize: a zero norm raises, otherwise the vector is rescaled        *)
Normalize(vec) ==
    IF vec.support = {} THEN Fail(vec, ZeroNormError) ELSE Ok(vec)

ReshapeKeepsLength(vec) == Normalize(vec)

(* _reshape_to_expected: pad with zeros or truncate, then renormalize      *)
ReshapeToExpected(vec) ==
    IF vec.len = TextDim
    THEN Normalize(vec)
    ELSE IF vec.len < TextDim
         THEN Normalize([vec EXCEPT !.len = TextDim])
         ELSE Normalize([vec EXCEPT !.len = TextDim,
                                    !.support = vec.support \cap (1..TextDim)])

(* What client.models.embed_content can answer for one text                *)
ApiVectorShapes ==
    { [len |-> TextDim,     support |-> {1}],
      [len |-> TextDim - 1, support |-> {1}],
      [len |-> TextDim + 1, support |-> {1, TextDim + 1}],
      [len |-> TextDim + 1, support |-> {TextDim + 1}],
      [len |-> TextDim,     support |-> {}] }

ApiResponses ==
    { [status |-> "ok", len |-> s.len, support |-> s.support, error |-> NoError] :
          s \in ApiVectorShapes }
    \cup { [status |-> "malformed", len |-> 0, support |-> {}, error |-> NoError] }
    \cup { [status |-> "error", len |-> 0, support |-> {}, error |-> e] : e \in ApiErrors }

(* _extract_embedding: the float list of the response, or RuntimeError     *)
ExtractEmbedding(resp, text) ==
    IF resp.status = "malformed"
    THEN Fail([len |-> 0, support |-> {}, of |-> text], MalformedResponseError)
    ELSE Ok([len |-> resp.len, support |-> resp.support, of |-> text])

(* body of the loop of embed_texts for one text                            *)
EmbedOne(text, resp) ==
    IF resp.status = "error"
    THEN Fail([len |-> 0, support |-> {}, of |-> text], resp.error)
    ELSE LET x == ExtractEmbedding(resp, text) IN
         IF ~x.ok
         THEN x
         ELSE LET n == Normalize(x.vector) IN
              IF ~n.ok
              THEN n
              ELSE IF n.vector.len # TextDim
                   THEN ReshapeToExpected(n.vector)
                   ELSE n

RECURSIVE EmbedLoop(_, _, _, _)
EmbedLoop(texts, resps, i, results) ==
    IF i > Len(texts)
    THEN [ok |-> TRUE, vectors |-> results, error |-> NoError, api_calls |-> Len(texts)]
    ELSE LET r == EmbedOne(texts[i], resps[i]) IN
         IF r.ok
         THEN EmbedLoop(texts, resps, i + 1, Append(results, r.vector))
         ELSE [ok |-> FALSE, vectors |-> <<>>, error |-> r.error, api_calls |-> i]

(* embed_texts: _ensure_client raises when no key resolves, before any     *)
(* request; then one request per text, in order                            *)
EmbedTexts(key_present, texts, resps) ==
    IF Len(texts) = 0
    THEN [ok |-> TRUE, vectors |-> <<>>, error |-> NoError, api_calls |-> 0]
    ELSE IF ~key_present
         THEN [ok |-> FALSE, vectors |-> <<>>, error |-> MissingKeyError, api_calls |-> 0]
         ELSE EmbedLoop(texts, resps, 1, <<>>)

(* ingest_pdf calls self.text_embedder / self.image_embedder as            *)
(* collaborators: what comes back is the service's answer, or (a           *)
(* collaborator that miscounts) that answer with the last vector missing   *)
(* or repeated.                                                            *)
PortAnswer(svc, drift) ==
    IF ~svc.ok \/ drift = 0 \/ svc.vectors = <<>>
    THEN svc
    ELSE IF drift < 0
         THEN [svc EXCEPT !.vectors = SubSeq(svc.vectors, 1, Len(svc.vectors) - 1)]
         ELSE [svc EXCEPT !.vectors = Append(svc.vectors, svc.vectors[Len(svc.vectors)])]

(***************************************************************************)
(* ImageEmbeddingService.embed_images (image_embeddings.py)                *)
(***************************************************************************)
ImageOutcomes == {"ok", "decode_error", "zero_norm"}

EmbedOneImage(data, outcome) ==
    IF outcome = "decode_error"
    THEN Fail([len |-> 0, support |-> {}, of |-> data], ImageDecodeError)
    ELSE IF outcome = "zero_norm"
         THEN Fail([len |-> ImageDim, support |-> {}, of |-> data], ZeroNormImageError)
         ELSE Ok([len |-> ImageDim, support |-> {1}, of |-> data])

RECURSIVE EmbedImageLoop(_, _, _, _)
EmbedImageLoop(images, outcomes, i, results) ==
    IF i > Len(images)
    THEN [ok |-> TRUE, vectors |-> results, error |-> NoError, api_calls |-> Len(images)]
    ELSE LET r == EmbedOneImage(images[i], outcomes[i]) IN
         IF r.ok
         THEN EmbedImageLoop(images, outcomes, i + 1, Append(results, r.vector))
         ELSE [ok |-> FALSE, vectors |-> <<>>, error |-> r.error, api_calls |-> i]

EmbedImages(images, outcomes) == EmbedImageLoop(images, outcomes, 1, <<>>)

(***************************************************************************)
(* Payload builders (schema.py)                                            *)
(***************************************************************************)
(* an optional list argument: None, or the list's items                    *)
NoTags == [is_none |-> TRUE, items |-> <<>>]

SharedTags(tags) == [i \in 1..clock |-> "t"]

(* list(tags) if tags else []                                              *)
TagsList(tags) == IF tags.is_none \/ tags.items = <<>> THEN <<>> ELSE tags.items

BuildTextPayload(point_id, source_pdf_id, page_number, chunk_id, chunk_text_preview, char_start, char_end, embedding_model_name, doc_title, tags, now) ==
    [id |-> point_id,
     type |-> "text",
     source_pdf_id |-> source_pdf_id,
     page_number |-> page_number,
     section_id |-> NoneValue,
     chunk_id |-> chunk_id,
     chunk_text_preview |-> chunk_text_preview,
     chunk_start_char_index |-> char_start,
     chunk_end_char_index |-> char_end,
     language |-> NoneValue,
     doc_title |-> doc_title,
     tags |-> TagsList(tags),
     modality |-> "text",
     embedding_model_name |-> embedding_model_name,
     embedding_dim |-> TextDim,
     created_at |-> now,
     version |-> NoneValue]

BuildImagePayload(point_id, source_pdf_id, page_number, image_s3_key, mime_type, width_px, height_px, embedding_model_name, caption_text, alt_text, doc_title, tags, now) ==
    [id |-> point_id,
     type |-> "image",
     source_pdf_id |-> source_pdf_id,
     page_number |-> page_number,
     figure_id |-> NoneValue,
     image_s3_key |-> image_s3_key,
     image_mime_type |-> mime_type,
     width_px |-> width_px,
     height_px |-> height_px,
     caption_text |-> caption_text,
     alt_text |-> alt_text,
     doc_title |-> doc_title,
     tags |-> TagsList(tags),
     modality |-> "image",
     embedding_model_name |-> embedding_model_name,
     embedding_dim |-> ImageDim,
     created_at |-> now,
     version |-> NoneValue]

(***************************************************************************)
(* ImageStore.upload_image (image_store.py)                                *)
(***************************************************************************)
MimeToExt(mime_type) ==
    CASE mime_type \in {"image/jpeg", "image/jpg"} -> "jpg"
      [] mime_type = "image/png" -> "png"
      [] mime_type = "image/webp" -> "webp"
      [] mime_type \in {"image/tiff", "image/tif"} -> "tif"
      [] mime_type = "image/bmp" -> "bmp"
      [] OTHER -> "bin"

UploadKey(pdf, page_number, obj_id, mime_type) ==
    [prefix |-> BASE_PREFIX, pdf_id |-> pdf, page |-> page_number,
     obj_id |-> obj_id, ext |-> MimeToExt(mime_type)]

(***************************************************************************)
(* PDFParser (parser.py): a document is seen as its pages' texts and the   *)
(* page of each embedded image of at least 64x64 px, in page order.        *)
(***************************************************************************)
PageTexts == { <<>>, <<" ">>, <<" ", "a">> }

ImagePlacements(page_count) ==
    { s \in SeqsUpTo(1..page_count, MaxImages) :
          \A i \in 1..(Len(s) - 1) : s[i] <= s[i + 1] }

Documents ==
    UNION { { [pages |-> p, images |-> im] : im \in ImagePlacements(Len(p)) } :
                p \in SeqsUpTo(PageTexts, MaxPages) }

ParseText(doc) ==
    [i \in 1..Len(doc.pages) |->
        [page_number |-> i, text |-> doc.pages[i],
         char_start |-> 0, char_end |-> Len(doc.pages[i])]]

ParseImages(doc) ==
    [i \in 1..Len(doc.images) |->
        [page_number |-> doc.images[i], image_bytes |-> <<"xobject", i>>,
         mime_type |-> "image/png", width_px |-> 64, height_px |-> 64]]

(***************************************************************************)
(* QdrantRepository upserts (queries.py) and the client behind them        *)
(***************************************************************************)
(* the PointStruct list built from the (id, vector, payload) tuples        *)
ToPointStructs(points) ==
    [i \in 1..Len(points) |->
        [id |-> points[i].id, vector |-> points[i].vector, payload |-> points[i].payload]]

(* upsert_text_points / upsert_image_points: the request handed to         *)
(* client.upsert; nothing but the list type is checked before it           *)
UpsertRequest(collection, points, accepted) ==
    [op |-> "upsert", collection |-> collection,
     points |-> ToPointStructs(points), ok |-> accepted]

CollectionDim(collection) == IF collection = TextCollection THEN TextDim ELSE ImageDim

(* the server refuses a batch holding a vector of another length than the  *)
(* collection was created with; any request can also fail in transit       *)
ServerAnswers(collection, points) ==
    IF \A i \in 1..Len(points) : points[i].vector.len = CollectionDim(collection)
    THEN BOOLEAN
    ELSE {FALSE}

(* a collection after an accepted upsert: points are replaced by id        *)
Upserted(store, points) ==
    {q \in store : \A i \in 1..Len(points) : points[i].id # q.id} \cup Range(points)

(***************************************************************************)
(* IngestionPipeline.ingest_pdf (ingestion_pipeline.py)                    *)
(***************************************************************************)
IsNonBlank(b) == Strip(b.text) # <<>>

KeepEveryBlock(blocks) == blocks

NonEmptyTextBlocks(blocks) == SelectSeq(blocks, IsNonBlank)

ChunkId(page_no) == <<"p">> \o ToDecimal(page_no)

CountIgnored(vectors, blocks) == TRUE

CountMatches(vectors, blocks) == Len(vectors) = Len(blocks)

(* the loop over zip(non_empty_text_blocks, vectors)                       *)
BuildTextPoints(pdf, blocks, vectors, uuid0, now0) ==
    [i \in 1..MinOf(Len(blocks), Len(vectors)) |->
        [id |-> uuid0 + i - 1,
         vector |-> vectors[i],
         payload |-> BuildTextPayload(uuid0 + i - 1, pdf, blocks[i].page_number,
                                      ChunkId(blocks[i].page_number),
                                      Prefix(blocks[i].text, PreviewLimit),
                                      blocks[i].char_start, blocks[i].char_end,
                                      TextModelName, NoneValue, NoTags, now0 + i - 1)]]

(* the body of the try: embed, check the count, build the points           *)
TextTry(pdf, blocks, ret, uuid0, now0) ==
    IF ~ret.ok
    THEN [ok |-> FALSE, points |-> <<>>, error |-> ret.error]
    ELSE IF ~CountMatches(ret.vectors, blocks)
         THEN [ok |-> FALSE, points |-> <<>>, error |-> TextCountMismatchError]
         ELSE [ok |-> TRUE,
               points |-> BuildTextPoints(pdf, blocks, ret.vectors, uuid0, now0),
               error |-> NoError]

NeverCredentials(msg) == FALSE

(* the test of the except clause                                           *)
IsCredentialsMessage(msg) ==
    "GEMINI_API_KEY" \in Range(msg) \/ "GOOGLE_API_KEY" \in Range(msg)

BuildImagePointsReversed(pdf, blocks, vectors, keys, uuid0, now0) ==
    [i \in 1..MinOf(Len(blocks), MinOf(Len(vectors), Len(keys))) |->
        [id |-> uuid0 + i - 1,
         vector |-> vectors[Len(vectors) + 1 - i],
         payload |-> BuildImagePayload(uuid0 + i - 1, pdf, blocks[i].page_number,
                                       keys[i], blocks[i].mime_type,
                                       blocks[i].width_px, blocks[i].height_px,
                                       ImageModelName, NoneValue, NoneValue, NoneValue,
                                       NoTags, now0 + i - 1)]]

(* the loop over zip(image_blocks, img_vectors, s3_keys)                   *)
BuildImagePoints(pdf, blocks, vectors, keys, uuid0, now0) ==
    [i \in 1..MinOf(Len(blocks), MinOf(Len(vectors), Len(keys))) |->
        [id |-> uuid0 + i - 1,
         vector |-> vectors[i],
         payload |-> BuildImagePayload(uuid0 + i - 1, pdf, blocks[i].page_number,
                                       keys[i], blocks[i].mime_type,
                                       blocks[i].width_px, blocks[i].height_px,
                                       ImageModelName, NoneValue, NoneValue, NoneValue,
                                       NoTags, now0 + i - 1)]]

AlwaysUpsert(points) == TRUE

(* `if text_points:` / `if image_points:` before each upsert               *)
ShouldUpsert(points) == points # <<>>

Swallow(e) == pc' = "q_generate" /\ UNCHANGED error

SkipToEmbedding(e) == pc' = "embed_images" /\ UNCHANGED error

Raise(e) == pc' = "raised" /\ error' = e

(* entry: argument validation                                              *)
IngestCall ==
    /\ pc = "idle"
    /\ \E bytes_ok \in BOOLEAN, id \in {"", "doc-1"} :
          IF ~bytes_ok
          THEN Raise(PdfBytesTypeError) /\ UNCHANGED pdf_id
          ELSE IF id = ""
               THEN Raise(PdfIdValueError) /\ UNCHANGED pdf_id
               ELSE pc' = "parse" /\ pdf_id' = id /\ UNCHANGED error
    /\ UNCHANGED <<api_key_present, text_blocks, image_blocks, text_points, image_points,
                   s3_keys, calls, store_text, store_image, s3_objects, next_uuid, clock>>
    /\ UNCHANGED normVars
    /\ UNCHANGED queryVars
    /\ UNCHANGED dbVars
    /\ UNCHANGED singletonVars

(* 1) parse_text, parse_images                                             *)
IngestParse ==
    /\ pc = "parse"
    /\ \/ /\ Raise(ParseError)
          /\ calls' = Append(calls, [op |-> "parse", ok |-> FALSE])
          /\ UNCHANGED <<text_blocks, image_blocks>>
       \/ \E doc \in Documents :
             /\ text_blocks' = ParseText(doc)
             /\ image_blocks' = ParseImages(doc)
             /\ calls' = Append(calls, [op |-> "parse", ok |-> TRUE])
             /\ pc' = "text"
             /\ UNCHANGED error
    /\ UNCHANGED <<api_key_present, pdf_id, text_points, image_points, s3_keys,
                   store_text, store_image, s3_objects, next_uuid, clock>>
    /\ UNCHANGED normVars
    /\ UNCHANGED queryVars
    /\ UNCHANGED dbVars
    /\ UNCHANGED singletonVars

(* 2) text embeddings and payloads, with the except clause                 *)
IngestText ==
    /\ pc = "text"
    /\ LET non_empty == NonEmptyTextBlocks(text_blocks) IN
       IF non_empty = <<>>
       THEN /\ pc' = "images"
            /\ UNCHANGED <<text_points, calls, error, next_uuid, clock>>
       ELSE \E resps \in [1..Len(non_empty) -> ApiResponses], drift \in {-1, 0, 1} :
               LET texts == [i \in 1..Len(non_empty) |-> non_empty[i].text]
                   svc == EmbedTexts(api_key_present, texts, resps)
                   ret == PortAnswer(svc, drift)
                   try == TextTry(pdf_id, non_empty, ret, next_uuid, clock)
               IN /\ calls' = Append(calls,
                                     [op |-> "embed_texts", texts |-> texts,
                                      resps |-> SubSeq(resps, 1, svc.api_calls),
                                      ret |-> [ok |-> ret.ok, vectors |-> ret.vectors,
                                               error |-> ret.error]])
                  /\ IF try.ok
                     THEN /\ text_points' = try.points
                          /\ next_uuid' = next_uuid + Len(try.points)
                          /\ clock' = clock + Len(try.points)
                          /\ pc' = "images"
                          /\ UNCHANGED error
                     ELSE IF IsCredentialsMessage(try.error.msg)
                          THEN /\ text_points' = <<>>
                               /\ pc' = "images"
                               /\ UNCHANGED <<error, next_uuid, clock>>
                          ELSE /\ Raise(try.error)
                               /\ UNCHANGED <<text_points, next_uuid, clock>>
    /\ UNCHANGED <<api_key_present, pdf_id, text_blocks, image_blocks, image_points,
                   s3_keys, store_text, store_image, s3_objects>>
    /\ UNCHANGED normVars
    /\ UNCHANGED queryVars
    /\ UNCHANGED dbVars
    /\ UNCHANGED singletonVars

(* 3) `if image_blocks:`                                                   *)
IngestImagesBranch ==
    /\ pc = "images"
    /\ pc' = IF image_blocks # <<>> THEN "upload" ELSE "upsert_text"
    /\ UNCHANGED <<calls, store_text, store_image, error>>
    /\ UNCHANGED ingestVars
    /\ UNCHANGED normVars
    /\ UNCHANGED queryVars
    /\ UNCHANGED dbVars
    /\ UNCHANGED singletonVars

(* one turn of the upload loop: ImageStore.upload_image                    *)
IngestUpload ==
    /\ pc = "upload"
    /\ Len(s3_keys) < Len(image_blocks)
    /\ LET img == image_blocks[Len(s3_keys) + 1]
           key == UploadKey(pdf_id, img.page_number, next_uuid, img.mime_type)
       IN \E stored \in BOOLEAN :
             /\ calls' = Append(calls, [op |-> "put_object", key |-> key,
                                        body |-> img.image_bytes, ok |-> stored])
             /\ next_uuid' = next_uuid + 1
             /\ IF stored
                THEN /\ s3_objects' = s3_objects \cup {key}
                     /\ s3_keys' = Append(s3_keys, key)
                     /\ pc' = IF Len(s3_keys) + 1 = Len(image_blocks)
                              THEN "embed_images" ELSE "upload"
                     /\ UNCHANGED error
                ELSE /\ Raise(StorageError)
                     /\ UNCHANGED <<s3_objects, s3_keys>>
    /\ UNCHANGED <<api_key_present, pdf_id, text_blocks, image_blocks, text_points,
                   image_points, store_text, store_image, clock>>
    /\ UNCHANGED normVars
    /\ UNCHANGED queryVars
    /\ UNCHANGED dbVars
    /\ UNCHANGED singletonVars

(* embed_images in one batch, the count check, the image points            *)
IngestEmbedImages ==
    /\ pc = "embed_images"
    /\ \E outcomes \in [1..Len(image_blocks) -> ImageOutcomes], drift \in {-1, 0, 1} :
          LET images == [i \in 1..Len(image_blocks) |-> image_blocks[i].image_bytes]
              ret == PortAnswer(EmbedImages(images, outcomes), drift)
          IN /\ calls' = Append(calls,
                                [op |-> "embed_images", images |-> images,
                                 ret |-> [ok |-> ret.ok, vectors |-> ret.vectors,
                                          error |-> ret.error]])
             /\ IF ~ret.ok
                THEN Raise(ret.error) /\ UNCHANGED <<image_points, next_uuid, clock>>
                ELSE IF ~CountMatches(ret.vectors, image_blocks)
                     THEN /\ Raise(ImageCountMismatchError)
                          /\ UNCHANGED <<image_points, next_uuid, clock>>
                     ELSE /\ image_points' = BuildImagePoints(pdf_id, image_blocks,
                                                 ret.vectors, s3_keys, next_uuid, clock)
                          /\ next_uuid' = next_uuid + Len(image_blocks)
                          /\ clock' = clock + Len(image_blocks)
                          /\ pc' = "upsert_text"
                          /\ UNCHANGED error
    /\ UNCHANGED <<api_key_present, pdf_id, text_blocks, image_blocks, text_points,
                   s3_keys, store_text, store_image, s3_objects>>
    /\ UNCHANGED normVars
    /\ UNCHANGED queryVars
    /\ UNCHANGED dbVars
    /\ UNCHANGED singletonVars

(* 4) `if text_points: upsert_text_points(text_points)`                    *)
IngestUpsertText ==
    /\ pc = "upsert_text"
    /\ IF ShouldUpsert(text_points)
       THEN \E accepted \in ServerAnswers(TextCollection, text_points) :
               /\ calls' = Append(calls, UpsertRequest(TextCollection, text_points, accepted))
               /\ IF accepted
                  THEN /\ store_text' = Upserted(store_text, ToPointStructs(text_points))
                       /\ pc' = "upsert_image"
                       /\ UNCHANGED error
                  ELSE Raise(VectorDbError) /\ UNCHANGED store_text
       ELSE pc' = "upsert_image" /\ UNCHANGED <<calls, store_text, error>>
    /\ UNCHANGED store_image
    /\ UNCHANGED ingestVars
    /\ UNCHANGED normVars
    /\ UNCHANGED queryVars
    /\ UNCHANGED dbVars
    /\ UNCHANGED singletonVars

(* `if image_points: upsert_image_points(image_points)`, then return       *)
IngestUpsertImage ==
    /\ pc = "upsert_image"
    /\ IF ShouldUpsert(image_points)
       THEN \E accepted \in ServerAnswers(ImageCollection, image_points) :
               /\ calls' = Append(calls, UpsertRequest(ImageCollection, image_points, accepted))
               /\ IF accepted
                  THEN /\ store_image' = Upserted(store_image, ToPointStructs(image_points))
                       /\ pc' = "done"
                       /\ UNCHANGED error
                  ELSE Raise(VectorDbError) /\ UNCHANGED store_image
       ELSE pc' = "done" /\ UNCHANGED <<calls, store_image, error>>
    /\ UNCHANGED store_text
    /\ UNCHANGED ingestVars
    /\ UNCHANGED normVars
    /\ UNCHANGED queryVars
    /\ UNCHANGED dbVars
    /\ UNCHANGED singletonVars

InitIngest ==
    /\ pc = "idle"
    /\ api_key_present \in BOOLEAN
    /\ pdf_id = ""
    /\ text_blocks = <<>>
    /\ image_blocks = <<>>
    /\ text_points = <<>>
    /\ image_points = <<>>
    /\ s3_keys = <<>>
    /\ calls = <<>>
    /\ store_text = {}
    /\ store_image = {}
    /\ s3_objects = {}
    /\ error = NoError
    /\ next_uuid = 1
    /\ clock = 1
    /\ scores = <<>>
    /\ norm_out = <<>>
    /\ NoQuery
    /\ NoInfra

NextIngest ==
    \/ IngestCall
    \/ IngestParse
    \/ IngestText
    \/ IngestImagesBranch
    \/ IngestUpload
    \/ IngestEmbedImages
    \/ IngestUpsertText
    \/ IngestUpsertImage

SpecIngest == InitIngest /\ [][NextIngest]_vars

(***************************************************************************)
(* Reading the call log                                                    *)
(***************************************************************************)
CallIdx(op) == {i \in 1..Len(calls) : calls[i].op = op}

UpsertIdx(collection) == {i \in CallIdx("upsert") : calls[i].collection = collection}

HasVisibleChar(t) == \E k \in 1..Len(t) : t[k] \notin Whitespace

DigitValue(c) == CHOOSE d \in 0..9 : DigitChars[d + 1] = c

RECURSIVE FromDecimal(_)
FromDecimal(s) ==
    IF Len(s) = 1
    THEN DigitValue(s[1])
    ELSE 10 * FromDecimal(SubSeq(s, 1, Len(s) - 1)) + DigitValue(s[Len(s)])

TextMiscounted(i) ==
    calls[i].ret.ok /\ Len(calls[i].ret.vectors) # Len(calls[i].texts)

ImageMiscounted(i) ==
    calls[i].ret.ok /\ Len(calls[i].ret.vectors) # Len(calls[i].images)

(***************************************************************************)
(* C1: an embedder that returns another number of vectors than it was      *)
(* given blocks (text: non-blank text blocks; image: image blocks) makes   *)
(* ingest_pdf raise the count-mismatch error, not swallowed as a           *)
(* credentials failure, and no upsert is sent for that modality.           *)
(***************************************************************************)
C1_CountMismatchRaises ==
    /\ \A i \in CallIdx("embed_texts") :
          TextMiscounted(i) =>
              /\ pc = "raised"
              /\ error = TextCountMismatchError
              /\ UpsertIdx(TextCollection) = {}
              /\ store_text = {}
    /\ \A i \in CallIdx("embed_images") :
          ImageMiscounted(i) =>
              /\ pc = "raised"
              /\ error = ImageCountMismatchError
              /\ UpsertIdx(ImageCollection) = {}
              /\ store_image = {}

C1_Witness ==
    /\ pc = "raised"
    /\ \E i \in CallIdx("embed_texts") :
          TextMiscounted(i) /\ Len(calls[i].ret.vectors) >= 1

(***************************************************************************)
(* C2: ingest_pdf is all-or-nothing: when it returns, every surviving text *)
(* point and every image point is in the store; when it raises, at any     *)
(* step, the store holds no point written by the call.                     *)
(***************************************************************************)
C2_AllOrNothing ==
    /\ pc = "done" =>
          /\ Range(ToPointStructs(text_points)) \subseteq store_text
          /\ Range(ToPointStructs(image_points)) \subseteq store_image
    /\ pc = "raised" => store_text = {} /\ store_image = {}

(***************************************************************************)
(* C3: when the text embedding step fails because the key is missing,      *)
(* ingest_pdf does not raise for it: it goes on with zero text points, no  *)
(* text upsert is sent, and the image blocks are uploaded, embedded and    *)
(* upserted as usual.                                                      *)
(***************************************************************************)
KeyMissingSkipped ==
    \E i \in CallIdx("embed_texts") : calls[i].ret.error = MissingKeyError

ImagePathComplete ==
    /\ Len(s3_keys) = Len(image_blocks)
    /\ Cardinality(CallIdx("put_object")) = Len(image_blocks)
    /\ \A k \in 1..Len(image_blocks) :
          \E i \in CallIdx("put_object") :
             /\ calls[i].ok
             /\ calls[i].body = image_blocks[k].image_bytes
             /\ calls[i].key = s3_keys[k]
    /\ image_blocks # <<>> =>
          /\ \E i \in CallIdx("embed_images") :
                /\ calls[i].images = [k \in 1..Len(image_blocks) |-> image_blocks[k].image_bytes]
                /\ calls[i].ret.ok
          /\ \E i \in UpsertIdx(ImageCollection) :
                /\ calls[i].ok
                /\ Len(calls[i].points) = Len(image_blocks)
                /\ Range(calls[i].points) \subseteq store_image
          /\ Cardinality(store_image) = Len(image_blocks)
    /\ image_blocks = <<>> => store_image = {}

C3_MissingKeyDegrades ==
    KeyMissingSkipped =>
        /\ error.kind # "credentials_missing"
        /\ text_points = <<>>
        /\ UpsertIdx(TextCollection) = {}
        /\ store_text = {}
        /\ calls[Len(calls)].op = "embed_texts" => pc # "raised"
        /\ pc = "raised" => error \in {StorageError, ImageDecodeError, ZeroNormImageError,
                                       ImageCountMismatchError, VectorDbError}
        /\ pc = "done" => ImagePathComplete

C3_Witness ==
    /\ pc = "done"
    /\ KeyMissingSkipped
    /\ Len(image_blocks) = 2
    /\ Cardinality(store_image) = 2

(***************************************************************************)
(* C4: a missing key is the only recoverable failure of the text path:     *)
(* any other failure of the text embedding step (network, authentication   *)
(* rejected, server error, malformed response, zero norm, count mismatch), *)
(* whatever its message, is raised to the caller and no later step runs.   *)
(***************************************************************************)
C4_OtherTextFailuresAbort ==
    \A i \in CallIdx("embed_texts") :
       /\ (~calls[i].ret.ok /\ calls[i].ret.error.kind # "credentials_missing") =>
             /\ pc = "raised"
             /\ error = calls[i].ret.error
             /\ i = Len(calls)
       /\ TextMiscounted(i) =>
             /\ pc = "raised"
             /\ error = TextCountMismatchError
             /\ i = Len(calls)

(***************************************************************************)
(* Direct use of the repository: upsert_text_points / upsert_image_points  *)
(* called with any batch (ids by position, vectors of either length)       *)
(***************************************************************************)
RepoBatches ==
    UNION { { [i \in 1..k |-> [id |-> i,
                               vector |-> [len |-> lens[i], support |-> {1}, of |-> i],
                               payload |-> [id |-> i]]] :
                lens \in [1..k -> {TextDim, ImageDim}] } :
            k \in 0..MaxBatch }

NotAListError ==
    [kind |-> "validation", type |-> "TypeError", msg |-> <<"points", "must", "be", "a", "list">>]

RepoUpsertText ==
    /\ pc = "repo"
    /\ Cardinality(CallIdx("upsert")) < MaxRepoCalls
    /\ \/ /\ error' = NotAListError
          /\ UNCHANGED <<calls, store_text>>
       \/ \E points \in RepoBatches :
             \E accepted \in ServerAnswers(TextCollection, points) :
                /\ calls' = Append(calls, UpsertRequest(TextCollection, points, accepted))
                /\ store_text' = IF accepted
                                 THEN Upserted(store_text, ToPointStructs(points))
                                 ELSE store_text
                /\ error' = IF accepted THEN NoError ELSE VectorDbError
    /\ UNCHANGED <<pc, store_image>>
    /\ UNCHANGED ingestVars
    /\ UNCHANGED normVars
    /\ UNCHANGED queryVars
    /\ UNCHANGED dbVars
    /\ UNCHANGED singletonVars

RepoUpsertImage ==
    /\ pc = "repo"
    /\ Cardinality(CallIdx("upsert")) < MaxRepoCalls
    /\ \/ /\ error' = NotAListError
          /\ UNCHANGED <<calls, store_image>>
       \/ \E points \in RepoBatches :
             \E accepted \in ServerAnswers(ImageCollection, points) :
                /\ calls' = Append(calls, UpsertRequest(ImageCollection, points, accepted))
                /\ store_image' = IF accepted
                                  THEN Upserted(store_image, ToPointStructs(points))
                                  ELSE store_image
                /\ error' = IF accepted THEN NoError ELSE VectorDbError
    /\ UNCHANGED <<pc, store_text>>
    /\ UNCHANGED ingestVars
    /\ UNCHANGED normVars
    /\ UNCHANGED queryVars
    /\ UNCHANGED dbVars
    /\ UNCHANGED singletonVars

InitRepo ==
    /\ pc = "repo"
    /\ api_key_present = TRUE
    /\ pdf_id = ""
    /\ text_blocks = <<>>
    /\ image_blocks = <<>>
    /\ text_points = <<>>
    /\ image_points = <<>>
    /\ s3_keys = <<>>
    /\ calls = <<>>
    /\ store_text = {}
    /\ store_image = {}
    /\ s3_objects = {}
    /\ error = NoError
    /\ next_uuid = 1
    /\ clock = 1
    /\ scores = <<>>
    /\ norm_out = <<>>
    /\ NoQuery
    /\ NoInfra

NextRepo == RepoUpsertText \/ RepoUpsertImage

SpecRepo == InitRepo /\ [][NextRepo]_vars

(***************************************************************************)
(* C5: an upsert whose batch holds a vector of another length than the     *)
(* target collection's dimension (text 1024, image 768) fails before the   *)
(* client's upsert is invoked: no such batch is ever handed to the client. *)
(***************************************************************************)
C5_DimensionCheckedBeforeWrite ==
    \A i \in CallIdx("upsert") :
       \A k \in 1..Len(calls[i].points) :
          calls[i].points[k].vector.len = CollectionDim(calls[i].collection)

(***************************************************************************)
(* C6, as claimed: a text embedding that comes back from the API with      *)
(* another length than 1024 makes ingestion fail, and no padded or         *)
(* truncated form of it is ever upserted.                                  *)
(***************************************************************************)
WrongLengthAt(i, k) ==
    calls[i].resps[k].status = "ok" /\ calls[i].resps[k].len # TextDim

C6_WrongLengthFailsIngestion ==
    \A i \in CallIdx("embed_texts") :
       (\E k \in 1..Len(calls[i].resps) : WrongLengthAt(i, k)) =>
           /\ pc = "raised"
           /\ UpsertIdx(TextCollection) = {}

(***************************************************************************)
(* C6, amended: a text embedding of another length than 1024 does not      *)
(* make ingestion fail by its length; it is zero-padded or truncated to    *)
(* 1024 components and renormalized, and that is the vector upserted (its  *)
(* non-zero components are those among the first 1024 of the API's         *)
(* vector); the embedding step fails on a returned vector only when it,    *)
(* or its truncation, has zero norm.  Every text vector upserted has       *)
(* length 1024.                                                            *)
(***************************************************************************)
C6_WrongLengthReshaped ==
    /\ \A u \in UpsertIdx(TextCollection) :
          \A e \in CallIdx("embed_texts") :
             \A k \in 1..Len(calls[u].points) :
                calls[u].points[k].vector =
                    [len |-> TextDim,
                     support |-> calls[e].resps[k].support \cap (1..TextDim),
                     of |-> calls[e].texts[k]]
    /\ \A e \in CallIdx("embed_texts") :
          LET n == Len(calls[e].resps) IN
          (n >= 1 /\ ~calls[e].ret.ok /\ calls[e].resps[n].status = "ok") =>
              /\ calls[e].ret.error = ZeroNormError
              /\ calls[e].resps[n].support \cap (1..TextDim) = {}

C6_Witness ==
    /\ pc = "done"
    /\ \E u \in UpsertIdx(TextCollection) :
          /\ calls[u].ok
          /\ Len(calls[u].points) = 2
    /\ \E e \in CallIdx("embed_texts") :
          /\ calls[e].resps[1].len = TextDim - 1
          /\ calls[e].resps[2].len = TextDim + 1

(***************************************************************************)
(* C7: within one ingest_pdf call each collection receives at most one     *)
(* upsert, never with an empty batch, and the text upsert precedes the     *)
(* image upsert.                                                           *)
(***************************************************************************)
C7_UpsertCalls ==
    /\ Cardinality(UpsertIdx(TextCollection)) <= 1
    /\ Cardinality(UpsertIdx(ImageCollection)) <= 1
    /\ \A i \in CallIdx("upsert") : calls[i].points # <<>>
    /\ \A i \in UpsertIdx(TextCollection) :
          /\ calls[i].points = ToPointStructs(text_points)
          /\ \A j \in UpsertIdx(ImageCollection) : i < j
    /\ \A j \in UpsertIdx(ImageCollection) : calls[j].points = ToPointStructs(image_points)
    /\ pc = "done" =>
          /\ text_points = <<>> <=> UpsertIdx(TextCollection) = {}
          /\ image_blocks = <<>> <=> UpsertIdx(ImageCollection) = {}

C7_Witness ==
    /\ pc = "done"
    /\ UpsertIdx(TextCollection) # {}
    /\ UpsertIdx(ImageCollection) # {}

(***************************************************************************)
(* C8, as claimed: for a document with n non-blank pages, any blank pages  *)
(* and no images, a successful ingest_pdf upserts exactly n text points,   *)
(* one per non-blank page with chunk_id "p" + page number, requests no     *)
(* embedding for a blank page, and uploads and upserts no image.  It is    *)
(* read here on the runs where the pipeline swallowed no error other than  *)
(* the missing key, so that its failure does not rest on the defect of C4. *)
(***************************************************************************)
NonBlankPages == {i \in 1..Len(text_blocks) : HasVisibleChar(text_blocks[i].text)}

TextOnlyOutcome ==
    /\ Cardinality(store_text) = Cardinality(NonBlankPages)
    /\ \A i \in NonBlankPages :
          \E p \in store_text :
             /\ p.payload.page_number = text_blocks[i].page_number
             /\ Head(p.payload.chunk_id) = "p"
             /\ FromDecimal(Tail(p.payload.chunk_id)) = text_blocks[i].page_number
             /\ p.vector.of = text_blocks[i].text
    /\ Cardinality(UpsertIdx(TextCollection)) = IF NonBlankPages = {} THEN 0 ELSE 1
    /\ \A u \in UpsertIdx(TextCollection) :
          Len(calls[u].points) = Cardinality(NonBlankPages)
    /\ \A e \in CallIdx("embed_texts") :
          /\ Len(calls[e].texts) = Cardinality(NonBlankPages)
          /\ \A k \in 1..Len(calls[e].texts) : HasVisibleChar(calls[e].texts[k])
    /\ CallIdx("put_object") = {}
    /\ CallIdx("embed_images") = {}
    /\ UpsertIdx(ImageCollection) = {}
    /\ store_image = {}

OnlyMissingKeySwallowed ==
    \A e \in CallIdx("embed_texts") :
       calls[e].ret.ok \/ calls[e].ret.error = MissingKeyError

C8_TextOnlyDocument ==
    (pc = "done" /\ image_blocks = <<>> /\ OnlyMissingKeySwallowed) => TextOnlyOutcome

(***************************************************************************)
(* C8, amended: the same, for a successful ingest_pdf whose text embedding *)
(* call returned without raising; when that call raised an error the       *)
(* pipeline swallowed (its message names GEMINI_API_KEY or                 *)
(* GOOGLE_API_KEY), ingest_pdf also returns, having upserted no text point *)
(* and, as before, uploaded and upserted no image.                         *)
(***************************************************************************)
TextEmbeddingRaised == \E e \in CallIdx("embed_texts") : ~calls[e].ret.ok

C8_TextOnlyDocumentEmbedded ==
    (pc = "done" /\ image_blocks = <<>>) =>
        /\ ~TextEmbeddingRaised => TextOnlyOutcome
        /\ TextEmbeddingRaised =>
              /\ store_text = {}
              /\ CallIdx("upsert") = {}
              /\ CallIdx("put_object") = {}
              /\ CallIdx("embed_images") = {}
              /\ \A e \in CallIdx("embed_texts") :
                    /\ Len(calls[e].texts) = Cardinality(NonBlankPages)
                    /\ \A k \in 1..Len(calls[e].texts) : HasVisibleChar(calls[e].texts[k])

C8_Witness ==
    /\ pc = "done"
    /\ image_blocks = <<>>
    /\ ~TextEmbeddingRaised
    /\ Len(text_blocks) = 2
    /\ NonBlankPages = {2}
    /\ \E p \in store_text : p.payload.chunk_id = <<"p", "2">>

(***************************************************************************)
(* QueryPipeline._normalize_scores (query_pipeline.py)                     *)
(*                                                                         *)
(* A Python float s with 1/2 <= s < 1 is m * 2^-53 for an integer m of 53  *)
(* bits; it is kept as [hi, lo] with m = hi * 2^29 + lo, 0 <= lo < 2^29.   *)
(* In that binade the float32 values are those with lo = 0.  Differences   *)
(* are kept the same way (hi may be negative), a quotient as the pair of   *)
(* its numerator and denominator: Python's division rounds to nearest, so  *)
(* the quotient is 1.0 iff num = den, 0.0 iff num = 0, lies in [0, 1] iff  *)
(* 0 <= num <= den, and is monotone in num.                                *)
(***************************************************************************)
F32Step == 2 ^ 29

Half == [hi |-> 8388608, lo |-> 0]                    \* 0.5
SixTenths == [hi |-> 10066329, lo |-> 322122547]      \* 0.6
ThreeQuarters == [hi |-> 12582912, lo |-> 0]          \* 0.75
NineTenths == [hi |-> 15099494, lo |-> 214748365]     \* 0.9
NineTenthsF32 == [hi |-> 15099494, lo |-> 0]          \* 0.8999999761581421

BelowTie == [hi |-> 12582912, lo |-> 268435455]       \* 0.7500000298023223
AboveTie == [hi |-> 12582912, lo |-> 268435457]       \* 0.7500000298023225

ScoreValues ==
    {Half, SixTenths, ThreeQuarters, NineTenths, NineTenthsF32, BelowTie, AboveTie}

Zero == [hi |-> 0, lo |-> 0]

Sub(x, y) ==
    IF x.lo >= y.lo
    THEN [hi |-> x.hi - y.hi, lo |-> x.lo - y.lo]
    ELSE [hi |-> x.hi - y.hi - 1, lo |-> x.lo - y.lo + F32Step]

Leq(x, y) == x.hi < y.hi \/ (x.hi = y.hi /\ x.lo <= y.lo)

(* np.asarray(scores, dtype=np.float32): round to nearest, ties to even    *)
ToFloat32(x) ==
    IF 2 * x.lo < F32Step \/ (2 * x.lo = F32Step /\ x.hi % 2 = 0)
    THEN [hi |-> x.hi, lo |-> 0]
    ELSE [hi |-> x.hi + 1, lo |-> 0]

MinOfSeq(s) == CHOOSE m \in Range(s) : \A x \in Range(s) : Leq(m, x)

MaxOfSeq(s) == CHOOSE m \in Range(s) : \A x \in Range(s) : Leq(x, m)

(* 1e-12, in units of 2^-53, is 9007.199...                                *)
EpsilonUnits == 9007

AtMostEpsilon(d) == d.hi < 0 \/ (d.hi = 0 /\ d.lo <= EpsilonUnits)

One == [num |-> [hi |-> 1, lo |-> 0], den |-> [hi |-> 1, lo |-> 0]]

NormalizeScores(s) ==
    IF s = <<>>
    THEN <<>>
    ELSE LET arr == [i \in 1..Len(s) |-> ToFloat32(s[i])]
             min_v == MinOfSeq(arr)
             max_v == MaxOfSeq(arr)
         IN IF AtMostEpsilon(Sub(max_v, min_v))
            THEN [i \in 1..Len(s) |-> One]
            ELSE [i \in 1..Len(s) |->
                     [num |-> Sub(s[i], min_v), den |-> Sub(max_v, min_v)]]

NormalizeCall ==
    /\ pc = "norm_call"
    /\ norm_out' = NormalizeScores(scores)
    /\ pc' = "norm_done"
    /\ UNCHANGED <<scores, calls, store_text, store_image, error>>
    /\ UNCHANGED ingestVars
    /\ UNCHANGED queryVars
    /\ UNCHANGED dbVars
    /\ UNCHANGED singletonVars

InitNormalize ==
    /\ pc = "norm_call"
    /\ scores \in SeqsUpTo(ScoreValues, MaxScores)
    /\ norm_out = <<>>
    /\ api_key_present = TRUE
    /\ pdf_id = ""
    /\ text_blocks = <<>>
    /\ image_blocks = <<>>
    /\ text_points = <<>>
    /\ image_points = <<>>
    /\ s3_keys = <<>>
    /\ calls = <<>>
    /\ store_text = {}
    /\ store_image = {}
    /\ s3_objects = {}
    /\ error = NoError
    /\ next_uuid = 1
    /\ clock = 1
    /\ NoQuery
    /\ NoInfra

NextNormalize == NormalizeCall

SpecNormalize == InitNormalize /\ [][NextNormalize]_vars

IsOne(q) == q.num = q.den

IsZero(q) == q.num = Zero

InUnitInterval(q) == Leq(Zero, q.num) /\ Leq(q.num, q.den)

RawMin == MinOfSeq(scores)

RawMax == MaxOfSeq(scores)

NonDegenerate == scores # <<>> /\ ~AtMostEpsilon(Sub(RawMax, RawMin))

(***************************************************************************)
(* C9: on a non-degenerate list (max - min > 1e-12) the result is,         *)
(* position by position, exactly (s_i - min) / (max - min): every maximal  *)
(* score gives 1.0, every minimal score 0.0, and [0.9, 0.5, 0.5] gives     *)
(* [1.0, 0.0, 0.0].  (Both a maximal and a minimal score occur in the      *)
(* list, so the quotients agree at every position iff the numerators and   *)
(* the denominators do.)                                                   *)
(***************************************************************************)
C9_ExactMinMax ==
    (pc = "norm_done" /\ NonDegenerate) =>
        /\ Len(norm_out) = Len(scores)
        /\ \A i \in 1..Len(scores) :
              /\ norm_out[i].num = Sub(scores[i], RawMin)
              /\ norm_out[i].den = Sub(RawMax, RawMin)
              /\ scores[i] = RawMax => IsOne(norm_out[i])
              /\ scores[i] = RawMin => IsZero(norm_out[i])
        /\ scores = <<NineTenths, Half, Half>> =>
              IsOne(norm_out[1]) /\ IsZero(norm_out[2]) /\ IsZero(norm_out[3])

(***************************************************************************)
(* C10: for a non-empty list every returned value lies in [0, 1], the      *)
(* result is as long as the input, and on a non-degenerate input           *)
(* s_i <= s_j implies norm_i <= norm_j.                                    *)
(***************************************************************************)
C10_UnitIntervalAndOrder ==
    (pc = "norm_done" /\ scores # <<>>) =>
        /\ Len(norm_out) = Len(scores)
        /\ \A i \in 1..Len(norm_out) : InUnitInterval(norm_out[i])
        /\ NonDegenerate =>
              \A i, j \in 1..Len(scores) :
                 Leq(scores[i], scores[j]) => Leq(norm_out[i].num, norm_out[j].num)

(***************************************************************************)
(* C11: on a degenerate list (a single score, or all scores equal, i.e.    *)
(* max - min <= 1e-12) every returned value is the constant 1.0 and no     *)
(* division by the range is made; on the empty list the result is empty.   *)
(* (When max - min <= 1e-12 and the division is made, the scores are not   *)
(* all equal, so some quotient has a numerator other than the range: the   *)
(* result is the constant 1.0 everywhere iff the division was not made.)   *)
(***************************************************************************)
Degenerate == scores # <<>> /\ AtMostEpsilon(Sub(RawMax, RawMin))

C11_DegenerateGivesOne ==
    pc = "norm_done" =>
        /\ scores = <<>> => norm_out = <<>>
        /\ Degenerate =>
              /\ Len(norm_out) = Len(scores)
              /\ \A i \in 1..Len(norm_out) : norm_out[i] = One

(***************************************************************************)
(* The vector-DB client behind QdrantRepository._search (queries.py)       *)
(*                                                                         *)
(* A client is the set of search methods it exposes, the one keyword name  *)
(* under which they accept the filter, the keyword name under which        *)
(* query_points / search_points accept the query vector (search takes      *)
(* query_vector), whether query_points / search_points answer with a       *)
(* response object holding .points (search answers with a list), and how   *)
(* it complains about a keyword it does not know: Python's TypeError names *)
(* the first such keyword, the client's own argument check lists them all. *)
(* The words of a message are kept without quotes; "[" and "]" are words.  *)
(***************************************************************************)
SearchMethods == {"search", "query_points", "search_points"}

Clients ==
    [methods : SUBSET SearchMethods, filter_name : {"query_filter", "filter"},
     vector_name : {"query", "vector"}, wraps : BOOLEAN,
     complaint : {"TypeError", "AssertionError"}]

ShapeError(complaint, unknown) ==
    IF complaint = "TypeError"
    THEN [kind |-> "parameter_shape", type |-> "TypeError",
          msg |-> <<"got", "an", "unexpected", "keyword", "argument", Head(unknown)>>]
    ELSE [kind |-> "parameter_shape", type |-> "AssertionError",
          msg |-> <<"Unknown", "arguments:", "[">> \o unknown \o <<"]">>]

AuthError ==
    [kind |-> "auth", type |-> "UnexpectedResponse", msg |-> <<"401", "Unauthorized">>]

NetworkError ==
    [kind |-> "network", type |-> "ResponseHandlingException",
     msg |-> <<"Connection", "refused">>]

MalformedFilterError ==
    [kind |-> "malformed_filter", type |-> "UnexpectedResponse",
     msg |-> <<"400", "Bad", "Request:", "invalid", "query_filter">>]

(* what the server does with a well-formed request: NoError is an answer   *)
ServerEvents == {NoError, AuthError, NetworkError, MalformedFilterError}

Scripts == [1..3 -> {NoError, NetworkError, MalformedFilterError}]

(* the `filters` argument: None, or a dict as its items in insertion order *)
NoFilters == [is_none |-> TRUE, items |-> <<>>]

SearchFilters ==
    { NoFilters,
      [is_none |-> FALSE, items |-> <<>>],
      [is_none |-> FALSE, items |-> <<[field |-> "source_pdf_id", value |-> "doc-1"]>>],
      [is_none |-> FALSE,
       items |-> <<[field |-> "page_number", value |-> "1"],
                   [field |-> "source_pdf_id", value |-> "doc-1"]>>] }

NeverFilter(filters) == NoneValue

(* _build_filter                                                           *)
BuildFilter(filters) ==
    IF filters.is_none \/ filters.items = <<>>
    THEN NoneValue
    ELSE [must |-> [i \in 1..Len(filters.items) |->
                      [key |-> filters.items[i].field,
                       match |-> [value |-> filters.items[i].value]]]]

(* one call client.<method>(collection_name=, <vname>=, limit=,            *)
(* <fname>=flt)                                                            *)
ClientAnswer(cl, method, vname, fname, flt, event, result) ==
    LET vector_ok == vname = (IF method = "search" THEN "query_vector" ELSE cl.vector_name)
        unknown == (IF vector_ok THEN <<>> ELSE <<vname>>)
                   \o (IF fname = cl.filter_name THEN <<>> ELSE <<fname>>)
        err == IF unknown # <<>> THEN ShapeError(cl.complaint, unknown) ELSE event
    IN [method |-> method, vector_name |-> vname, filter_name |-> fname, flt |-> flt,
        ok |-> err = NoError, error |-> err,
        value |-> IF err # NoError
                  THEN [shape |-> "none", hits |-> <<>>]
                  ELSE IF method # "search" /\ cl.wraps
                       THEN [shape |-> "response", hits |-> result]
                       ELSE [shape |-> "list", hits |-> result]]

(* str.lower() on the words that occur in the messages                     *)
LowerWord(w) ==
    CASE w = "Unknown" -> "unknown"
      [] w = "Unauthorized" -> "unauthorized"
      [] w = "Connection" -> "connection"
      [] w = "Bad" -> "bad"
      [] w = "Request:" -> "request:"
      [] OTHER -> w

Lower(msg) == [i \in 1..Len(msg) |-> LowerWord(msg[i])]

(* Python's `phrase in msg` for a phrase of whole words                    *)
Contains(msg, phrase) ==
    \E i \in 0..(Len(msg) - Len(phrase)) :
       \A k \in 1..Len(phrase) : msg[i + k] = phrase[k]

(* lines 45-49: the two longer phrases contain the first                   *)
MentionsQueryFilter(msg) == Contains(msg, <<"query_filter">>)

(* lines 57-60                                                             *)
ComplainsAboutFilter(msg) ==
    \/ Contains(msg, <<"unknown", "arguments:", "[", "filter", "]">>)
    \/ Contains(msg, <<"unexpected", "keyword", "argument", "filter">>)

KeepWrapped(resp) == resp

(* getattr(resp, "points", resp)                                           *)
Unwrap(resp) ==
    IF resp.shape = "response" THEN [shape |-> "list", hits |-> resp.hits] ELSE resp

SearchReturned(attempts, value) ==
    [ok |-> TRUE, value |-> value, error |-> NoError, attempts |-> attempts]

SearchRaised(attempts, e) ==
    [ok |-> FALSE, value |-> [shape |-> "none", hits |-> <<>>], error |-> e,
     attempts |-> attempts]

(***************************************************************************)
(* QdrantRepository._search, search_text, search_images (queries.py)       *)
(***************************************************************************)
NoSearchMethodError ==
    [kind |-> "configuration", type |-> "RuntimeError",
     msg |-> <<"Qdrant", "client", "does", "not", "support", "a", "known", "search", "method">>]

QueryVectorValueError ==
    [kind |-> "validation", type |-> "ValueError",
     msg |-> <<"query_vector", "must", "be", "a", "non-empty", "list", "of", "floats">>]

TopKValueError ==
    [kind |-> "validation", type |-> "ValueError",
     msg |-> <<"top_k", "must", "be", "a", "positive", "integer">>]

(* a repository that starts with the filter spelling its last successful  *)
(* search ended on                                                         *)
RememberedFilter ==
    IF calls # <<>> /\ calls[Len(calls)].op = "search" /\ calls[Len(calls)].ok
                   /\ calls[Len(calls)].attempts # <<>>
    THEN calls[Len(calls)].attempts[Len(calls[Len(calls)].attempts)].filter_name
    ELSE "query_filter"

NegotiateRemembering(cl, method, vname, flt, unwraps, has_third, script, result) ==
    LET out(v) == IF unwraps THEN Unwrap(v) ELSE v
        a1 == ClientAnswer(cl, method, vname, RememberedFilter, flt, script[1], result)
        msg == Lower(a1.error.msg)
        alt == IF MentionsQueryFilter(msg) THEN "filter" ELSE "query_filter"
        a2 == ClientAnswer(cl, method, vname, alt, flt, script[2], result)
    IN IF a1.ok
       THEN SearchReturned(<<a1>>, out(a1.value))
       ELSE IF ~MentionsQueryFilter(msg) /\ ~ComplainsAboutFilter(msg)
            THEN SearchRaised(<<a1>>, a1.error)
            ELSE IF a2.ok
                 THEN SearchReturned(<<a1, a2>>, out(a2.value))
                 ELSE SearchRaised(<<a1, a2>>, a2.error)

(* One branch of _search: the first attempt passes query_filter; on an     *)
(* error whose lowered text holds "query_filter" the call is repeated with *)
(* filter, on one that complains about filter it is repeated with          *)
(* query_filter, any other error is re-raised.  In the query_points branch *)
(* (has_third) an error of the second attempt is caught and a third        *)
(* attempt passes the vector as `vector`.  The search branch returns the   *)
(* client's value as it is, the two others unwrap .points.                 *)
Negotiate(cl, method, vname, flt, unwraps, has_third, script, result) ==
    LET out(v) == IF unwraps THEN Unwrap(v) ELSE v
        a1 == ClientAnswer(cl, method, vname, "query_filter", flt, script[1], result)
        msg == Lower(a1.error.msg)
        alt == IF MentionsQueryFilter(msg) THEN "filter" ELSE "query_filter"
        a2 == ClientAnswer(cl, method, vname, alt, flt, script[2], result)
        a3 == ClientAnswer(cl, method, "vector", alt, flt, script[3], result)
    IN IF a1.ok
       THEN SearchReturned(<<a1>>, out(a1.value))
       ELSE IF ~MentionsQueryFilter(msg) /\ ~ComplainsAboutFilter(msg)
            THEN SearchRaised(<<a1>>, a1.error)
            ELSE IF a2.ok
                 THEN SearchReturned(<<a1, a2>>, out(a2.value))
                 ELSE IF ~has_third
                      THEN SearchRaised(<<a1, a2>>, a2.error)
                      ELSE IF a3.ok
                           THEN SearchReturned(<<a1, a2, a3>>, out(a3.value))
                           ELSE SearchRaised(<<a1, a2, a3>>, a3.error)

AlwaysSearch(cl, flt, script, result) ==
    Negotiate(cl, "search", "query_vector", flt, FALSE, FALSE, script, result)

Search(cl, flt, script, result) ==
    IF "search" \in cl.methods
    THEN Negotiate(cl, "search", "query_vector", flt, FALSE, FALSE, script, result)
    ELSE IF "query_points" \in cl.methods
         THEN Negotiate(cl, "query_points", "query", flt, TRUE, TRUE, script, result)
         ELSE IF "search_points" \in cl.methods
              THEN Negotiate(cl, "search_points", "query", flt, TRUE, FALSE, script, result)
              ELSE SearchRaised(<<>>, NoSearchMethodError)

(* search_text / search_images: argument checks, then _search              *)
SearchCollection(cl, query_vector, top_k, filters, script, result) ==
    IF query_vector.len = 0
    THEN SearchRaised(<<>>, QueryVectorValueError)
    ELSE IF top_k <= 0
         THEN SearchRaised(<<>>, TopKValueError)
         ELSE Search(cl, BuildFilter(filters), script, result)

SearchCall(collection, query_vector, top_k, filters, ret) ==
    [op |-> "search", collection |-> collection, query_vector |-> query_vector,
     limit |-> top_k, filters |-> filters, attempts |-> ret.attempts, ok |-> ret.ok,
     ret |-> ret.value, error |-> ret.error]

(***************************************************************************)
(* What the collections hold and the server returns: hits in descending    *)
(* order of score, at most `limit` of them.  Text points are those         *)
(* ingestion writes, and one written elsewhere without a preview; image    *)
(* points are those ingestion writes, or carry an empty storage key, no    *)
(* storage key, or no payload at all.                                      *)
(***************************************************************************)
MaxImageHits == 2

AboveStep == [hi |-> 12582913, lo |-> 214748365]      \* 0.7500000834465027

TextHitScores == {ThreeQuarters, AboveStep}

ImageHitScores == {Half, AboveStep}

EmptyKey == [prefix |-> "", pdf_id |-> "", page |-> 0, obj_id |-> 0, ext |-> ""]

Descending(sc) == \A i \in 1..(Len(sc) - 1) : Leq(sc[i + 1], sc[i])

PreviewOf(k) ==
    CASE k = 1 -> <<"a">>
      [] k = 2 -> <<" ", "b", " ">>
      [] k = 3 -> <<>>
      [] OTHER -> <<"d">>

StoredTextPayload(k) ==
    BuildTextPayload(k, "doc-1", k, ChunkId(k), PreviewOf(k), 0, Len(PreviewOf(k)), TextModelName, NoneValue, NoTags, 1)

TextHitLists(limit) ==
    { [k \in 1..Len(sc) |-> [id |-> k, score |-> sc[k], payload |-> StoredTextPayload(k)]] :
          sc \in {s \in SeqsUpTo(TextHitScores, limit) : Descending(s)} }

ImagePayloadKinds == {"stored", "empty_key", "no_key", "no_payload"}

StoredImagePayload(k, key) ==
    BuildImagePayload(k, "doc-1", k, key, "image/png", 64, 64, ImageModelName, NoneValue,
                      NoneValue, NoneValue, NoTags, 1)

ImagePayloadOf(k, kind) ==
    CASE kind = "stored" -> StoredImagePayload(k, UploadKey("doc-1", k, k, "image/png"))
      [] kind = "empty_key" -> StoredImagePayload(k, EmptyKey)
      [] kind = "no_key" -> [id |-> k, type |-> "image", page_number |-> k]
      [] OTHER -> NoneValue

ImageHitLists(limit) ==
    UNION { { [k \in 1..Len(sc) |-> [id |-> k, score |-> sc[k], payload |-> ImagePayloadOf(k, kd[k])]] :
                  kd \in [1..Len(sc) -> ImagePayloadKinds] } :
              sc \in {s \in SeqsUpTo(ImageHitScores, MinOf(limit, MaxImageHits)) : Descending(s)} }

(* image hits as ingestion writes them                                     *)
StoredImageHitLists(limit) ==
    { hits \in ImageHitLists(limit) :
         \A k \in 1..Len(hits) : hits[k].payload = ImagePayloadOf(k, "stored") }

(***************************************************************************)
(* Score arithmetic of answer_question (query_pipeline.py)                 *)
(*                                                                         *)
(* A score of the response is w * q for a weight w in tenths (10 for the   *)
(* normalized score itself, 6 and 4 for the fused ones, 0 for the constant *)
(* 0.0) and a quotient q of _normalize_scores.  round(x, 6) is the integer *)
(* number of millionths nearest to x, computed by long division.           *)
(***************************************************************************)
TextWeight == 6
ImageWeight == 4
TopKText == 5
TopKImage == 5
UrlTtl == 900
FallbackTop == 3

Add(x, y) ==
    IF x.lo + y.lo >= F32Step
    THEN [hi |-> x.hi + y.hi + 1, lo |-> x.lo + y.lo - F32Step]
    ELSE [hi |-> x.hi + y.hi, lo |-> x.lo + y.lo]

RECURSIVE Times(_, _)
Times(x, n) == IF n = 0 THEN Zero ELSE Add(Times(x, n - 1), x)

RECURSIVE DivMod(_, _, _)
DivMod(r, d, n) ==
    IF Leq(d, r) THEN DivMod(Sub(r, d), d, n + 1) ELSE [quot |-> n, rem |-> r]

RECURSIVE Digits(_, _, _, _)
Digits(r, d, k, n) ==
    IF n = 0
    THEN [k |-> k, rem |-> r]
    ELSE LET s == DivMod(Times(r, 10), d, 0) IN Digits(s.rem, d, 10 * k + s.quot, n - 1)

Unscaled(tenths, q) == [tenths |-> 10, q |-> q]

Scaled(tenths, q) == [tenths |-> tenths, q |-> q]

ZeroScore == Scaled(0, One)

(* round(float(x), 6), in millionths                                       *)
Round6(x) ==
    IF x.tenths = 0 THEN 0 ELSE
    LET negative == x.q.num.hi < 0
        mag == IF negative THEN Sub(Zero, x.q.num) ELSE x.q.num
        first == DivMod(Times(mag, x.tenths), x.q.den, 0)
        rest == Digits(first.rem, x.q.den, first.quot, 5)
        twice == Times(rest.rem, 2)
        k == IF Leq(x.q.den, twice) /\ (twice # x.q.den \/ rest.k % 2 = 1)
             THEN rest.k + 1
             ELSE rest.k
    IN IF negative THEN 0 - k ELSE k

(* lines 86-109: normalize, fuse, pair each hit with its three scores and  *)
(* sort by the fused score, descending; list.sort is stable.  The fused    *)
(* scores of one list share weight and denominator.                        *)
FusedLessOrEqual(a, b) == Leq(a.fscore.q.num, b.fscore.q.num)

FusedLess(a, b) == ~Leq(b.fscore.q.num, a.fscore.q.num)

RECURSIVE InsertRanked(_, _)
InsertRanked(sorted, x) ==
    IF sorted = <<>>
    THEN <<x>>
    ELSE IF FusedLess(Head(sorted), x)
         THEN <<x>> \o sorted
         ELSE <<Head(sorted)>> \o InsertRanked(Tail(sorted), x)

RECURSIVE SortByFused(_)
SortByFused(items) ==
    IF items = <<>>
    THEN <<>>
    ELSE InsertRanked(SortByFused(SubSeq(items, 1, Len(items) - 1)), items[Len(items)])

HitScores(hits) == [i \in 1..Len(hits) |-> hits[i].score]

TextRanked(hits) ==
    LET text_norm == NormalizeScores(HitScores(hits)) IN
    SortByFused([i \in 1..Len(hits) |->
        [hit |-> hits[i], tscore |-> Scaled(10, text_norm[i]), iscore |-> ZeroScore,
         fscore |-> Scaled(TextWeight, text_norm[i])]])

ImageRanked(hits) ==
    LET image_norm == NormalizeScores(HitScores(hits)) IN
    SortByFused([i \in 1..Len(hits) |->
        [hit |-> hits[i], tscore |-> ZeroScore, iscore |-> Scaled(10, image_norm[i]),
         fscore |-> Scaled(ImageWeight, image_norm[i])]])

ScoreTriple(item) ==
    [text_score |-> Round6(item.tscore), image_score |-> Round6(item.iscore),
     fused_score |-> Round6(item.fscore)]

(***************************************************************************)
(* Collaborators of answer_question                                        *)
(***************************************************************************)
QuestionValueError ==
    [kind |-> "validation", type |-> "ValueError",
     msg |-> <<"question", "must", "be", "a", "non-empty", "string">>]

ZeroNormClipError ==
    [kind |-> "zero_norm", type |-> "ValueError",
     msg |-> <<"Received", "zero-norm", "CLIP", "text", "embedding">>]

ClipModelError ==
    [kind |-> "model", type |-> "RuntimeError", msg |-> <<"encode_text", "failed">>]

PresignError ==
    [kind |-> "storage", type |-> "NoCredentialsError",
     msg |-> <<"Unable", "to", "locate", "credentials">>]

Questions ==
    { [is_str |-> FALSE, chars |-> <<>>], [is_str |-> TRUE, chars |-> <<>>],
      [is_str |-> TRUE, chars |-> <<" ">>], [is_str |-> TRUE, chars |-> <<" ", "q">>] }

(* TextEmbeddingService.embed_text                                         *)
EmbedText(key_present, text, resp) ==
    IF ~key_present
    THEN Fail([len |-> 0, support |-> {}, of |-> text], MissingKeyError)
    ELSE EmbedOne(text, resp)

ClipOutcomes == {"ok", "zero_norm", "model_error"}

(* ImageEmbeddingService.embed_text_to_image_space                         *)
EmbedTextToImageSpace(text, outcome) ==
    CASE outcome = "ok" -> Ok([len |-> ImageDim, support |-> {1}, of |-> text])
      [] outcome = "zero_norm" -> Fail([len |-> ImageDim, support |-> {}, of |-> text], ZeroNormClipError)
      [] OTHER -> Fail([len |-> 0, support |-> {}, of |-> text], ClipModelError)

(* hit.payload or {}                                                       *)
PayloadOrEmpty(payload) == IF payload = NoneValue THEN <<>> ELSE payload

(* payload.get(field)                                                      *)
PayloadGet(payload, field) ==
    IF field \in DOMAIN payload THEN payload[field] ELSE NoneValue

NeverFalsy(s3_key) == FALSE

(* `not s3_key`                                                            *)
KeyIsFalsy(s3_key) == s3_key \in {NoneValue, EmptyKey}

PresignOutcomes == {"ok", "error"}

(* generate_presigned_url (presigned_urls.py): the key and ttl it is given *)
(* pass its checks; the signing client answers or raises                   *)
GeneratePresignedUrl(s3_key, ttl_seconds, outcome) ==
    [op |-> "presign", s3_key |-> s3_key, ttl_seconds |-> ttl_seconds,
     ok |-> outcome = "ok",
     url |-> IF outcome = "ok"
             THEN [key |-> s3_key, expires_in |-> ttl_seconds]
             ELSE NoneValue,
     error |-> IF outcome = "ok" THEN NoError ELSE PresignError]

ImageEntry(item, payload, s3_key, url) ==
    [id |-> PayloadGet(payload, "id"),
     presigned_url |-> url,
     ttl_seconds |-> UrlTtl,
     page_number |-> PayloadGet(payload, "page_number"),
     caption_text |-> PayloadGet(payload, "caption_text"),
     alt_text |-> PayloadGet(payload, "alt_text"),
     image_mime_type |-> PayloadGet(payload, "image_mime_type"),
     s3_key |-> s3_key,
     scores |-> ScoreTriple(item),
     embedding_model_name |-> PayloadGet(payload, "embedding_model_name"),
     modality |-> "image"]

(* 6) the loop over image_ranked                                           *)
RECURSIVE PresignLoop(_, _, _, _, _)
PresignLoop(ranked, outcomes, i, resp, log) ==
    IF i > Len(ranked)
    THEN [ok |-> TRUE, images |-> resp, log |-> log, error |-> NoError]
    ELSE LET payload == PayloadOrEmpty(ranked[i].hit.payload)
             s3_key == PayloadGet(payload, "image_s3_key")
             r == GeneratePresignedUrl(s3_key, UrlTtl, outcomes[i])
         IN IF KeyIsFalsy(s3_key)
            THEN PresignLoop(ranked, outcomes, i + 1, resp, log)
            ELSE IF ~r.ok
                 THEN [ok |-> FALSE, images |-> resp, log |-> Append(log, r), error |-> r.error]
                 ELSE PresignLoop(ranked, outcomes, i + 1,
                                  Append(resp, ImageEntry(ranked[i], payload, s3_key, r.url)),
                                  Append(log, r))

TextEntry(item) ==
    LET payload == PayloadOrEmpty(item.hit.payload) IN
    [id |-> PayloadGet(payload, "id"),
     chunk_text_preview |-> PayloadGet(payload, "chunk_text_preview"),
     page_number |-> PayloadGet(payload, "page_number"),
     section_id |-> PayloadGet(payload, "section_id"),
     scores |-> ScoreTriple(item),
     embedding_model_name |-> PayloadGet(payload, "embedding_model_name"),
     modality |-> "text"]

(* 7) the context object                                                   *)
BuildContext(text_ranked, images) ==
    [text_chunks |-> [i \in 1..Len(text_ranked) |-> TextEntry(text_ranked[i])],
     images |-> images,
     fusion |-> [strategy |-> "weighted_sum",
                 weights |-> [text |-> TextWeight, image |-> ImageWeight],
                 normalized |-> TRUE]]

(***************************************************************************)
(* The answer generator: GeminiAnswerGenerator (answer_generator.py) when  *)
(* its module imports, with or without a usable SDK and key, otherwise the *)
(* _Fallback class of QueryPipeline.__init__.                              *)
(***************************************************************************)
Generators == {"fallback_class", "gemini_unconfigured", "gemini"}

LlmOutcomes ==
    { [raises |-> FALSE, text |-> <<" ", "o", "k">>], [raises |-> FALSE, text |-> <<" ">>],
      [raises |-> FALSE, text |-> <<>>], [raises |-> TRUE, text |-> <<>>] }

NoContextFound == <<"No relevant context found.">>

(* "\n\n".join(parts)                                                      *)
RECURSIVE Join(_)
Join(parts) ==
    IF parts = <<>>
    THEN <<>>
    ELSE IF Len(parts) = 1
         THEN Head(parts)
         ELSE Head(parts) \o <<"\n\n">> \o Join(Tail(parts))

(* (t or {}).get("chunk_text_preview") or "": every text chunk of the      *)
(* context carries a preview string here, the empty one being falsy        *)
PreviewOrEmpty(t) == t.chunk_text_preview

(* the stripped non-empty previews of the first chunks, joined             *)
ExtractiveBody(context) ==
    LET top == Prefix(context.text_chunks, FallbackTop)
        kept == SelectSeq([i \in 1..Len(top) |-> PreviewOrEmpty(top[i])], LAMBDA p : p # <<>>)
        joined == Join([i \in 1..Len(kept) |-> Strip(kept[i])])
    IN IF joined = <<>> THEN NoContextFound ELSE joined

Generate(gen, context, llm) ==
    IF gen = "fallback_class"
    THEN [template |-> "Answer (no LLM available)", body |-> ExtractiveBody(context)]
    ELSE IF gen = "gemini" /\ ~llm.raises /\ Strip(llm.text) # <<>>
         THEN [template |-> "llm", body |-> Strip(llm.text)]
         ELSE [template |-> "Based on the retrieved context", body |-> ExtractiveBody(context)]

(***************************************************************************)
(* QueryPipeline.answer_question (query_pipeline.py), step by step         *)
(***************************************************************************)
QueryConstScripts == { [i \in 1..3 |-> e] : e \in ServerEvents }

(* entry: the check of lines 74-75                                         *)
QueryCall ==
    /\ pc = "q_call"
    /\ IF ~question.is_str \/ Strip(question.chars) = <<>>
       THEN Raise(QuestionValueError)
       ELSE pc' = "q_embed_text" /\ UNCHANGED error
    /\ UNCHANGED <<calls, store_text, store_image>>
    /\ UNCHANGED ingestVars
    /\ UNCHANGED normVars
    /\ UNCHANGED queryVars
    /\ UNCHANGED dbVars
    /\ UNCHANGED singletonVars

(* 1) text_embedder.embed_text(question)                                   *)
QueryEmbedText ==
    /\ pc = "q_embed_text"
    /\ \E resp \in ApiResponses :
          LET ret == EmbedText(api_key_present, question.chars, resp) IN
          /\ calls' = Append(calls, [op |-> "embed_text", text |-> question.chars,
                                     ok |-> ret.ok, error |-> ret.error])
          /\ IF ret.ok
             THEN pc' = "q_embed_image" /\ text_vec' = ret.vector /\ UNCHANGED error
             ELSE Raise(ret.error) /\ UNCHANGED text_vec
    /\ UNCHANGED <<store_text, store_image>>
    /\ UNCHANGED ingestVars
    /\ UNCHANGED normVars
    /\ UNCHANGED <<question, generator, client, image_query_vec, text_hits, image_hits,
                   images_resp, response, search_ret>>
    /\ UNCHANGED dbVars
    /\ UNCHANGED singletonVars

(* 1) image_embedder.embed_text_to_image_space(question)                   *)
QueryEmbedImageSpace ==
    /\ pc = "q_embed_image"
    /\ \E outcome \in ClipOutcomes :
          LET ret == EmbedTextToImageSpace(question.chars, outcome) IN
          /\ calls' = Append(calls, [op |-> "embed_text_to_image_space",
                                     text |-> question.chars,
                                     ok |-> ret.ok, error |-> ret.error])
          /\ IF ret.ok
             THEN pc' = "q_search_text" /\ image_query_vec' = ret.vector /\ UNCHANGED error
             ELSE Raise(ret.error) /\ UNCHANGED image_query_vec
    /\ UNCHANGED <<store_text, store_image>>
    /\ UNCHANGED ingestVars
    /\ UNCHANGED normVars
    /\ UNCHANGED <<question, generator, client, text_vec, text_hits, image_hits,
                   images_resp, response, search_ret>>
    /\ UNCHANGED dbVars
    /\ UNCHANGED singletonVars

(* 2) qdrant_repo.search_text                                              *)
QuerySearchText ==
    /\ pc = "q_search_text"
    /\ \E script \in QueryConstScripts, result \in TextHitLists(TopKText) :
          LET ret == SearchCollection(client, text_vec, TopKText, NoFilters, script, result) IN
          /\ calls' = Append(calls, SearchCall(TextCollection, text_vec, TopKText, NoFilters, ret))
          /\ IF ret.ok
             THEN pc' = "q_search_images" /\ text_hits' = ret.value.hits /\ UNCHANGED error
             ELSE Raise(ret.error) /\ UNCHANGED text_hits
    /\ UNCHANGED <<store_text, store_image>>
    /\ UNCHANGED ingestVars
    /\ UNCHANGED normVars
    /\ UNCHANGED <<question, generator, client, text_vec, image_query_vec, image_hits,
                   images_resp, response, search_ret>>
    /\ UNCHANGED dbVars
    /\ UNCHANGED singletonVars

(* 2) qdrant_repo.search_images                                            *)
QuerySearchImages ==
    /\ pc = "q_search_images"
    /\ \E script \in QueryConstScripts, result \in ImageHitLists(TopKImage) :
          LET ret == SearchCollection(client, image_query_vec, TopKImage, NoFilters, script, result) IN
          /\ calls' = Append(calls, SearchCall(ImageCollection, image_query_vec, TopKImage, NoFilters, ret))
          /\ IF ret.ok
             THEN pc' = "q_presign" /\ image_hits' = ret.value.hits /\ UNCHANGED error
             ELSE Raise(ret.error) /\ UNCHANGED image_hits
    /\ UNCHANGED <<store_text, store_image>>
    /\ UNCHANGED ingestVars
    /\ UNCHANGED normVars
    /\ UNCHANGED <<question, generator, client, text_vec, image_query_vec, text_hits,
                   images_resp, response, search_ret>>
    /\ UNCHANGED dbVars
    /\ UNCHANGED singletonVars

(* 3) to 6): normalize, fuse, rank, and the pre-signed URLs                *)
QueryPresign ==
    /\ pc = "q_presign"
    /\ \E image_ranked \in {ImageRanked(image_hits)} :
       \E outcomes \in [1..Len(image_hits) -> PresignOutcomes] :
       \E loop \in {PresignLoop(image_ranked, outcomes, 1, <<>>, <<>>)} :
          /\ calls' = calls \o loop.log
          /\ images_resp' = loop.images
          /\ IF loop.ok
             THEN pc' = "q_generate" /\ UNCHANGED error
             ELSE Raise(loop.error)
    /\ UNCHANGED <<store_text, store_image>>
    /\ UNCHANGED ingestVars
    /\ UNCHANGED normVars
    /\ UNCHANGED <<question, generator, client, text_vec, image_query_vec, text_hits,
                   image_hits, response, search_ret>>
    /\ UNCHANGED dbVars
    /\ UNCHANGED singletonVars

(* 7) to 9): context, answer_generator.generate, the response              *)
QueryGenerate ==
    /\ pc = "q_generate"
    /\ \E context \in {BuildContext(TextRanked(text_hits), images_resp)} :
       \E llm \in LlmOutcomes :
       \E answer_text \in {Generate(generator, context, llm)} :
             /\ calls' = Append(calls, [op |-> "generate", question |-> question.chars,
                                        llm_called |-> generator = "gemini",
                                        llm_raised |-> generator = "gemini" /\ llm.raises])
             /\ response' = [returned |-> TRUE,
                             request_id |-> next_uuid,
                             question |-> question.chars,
                             answer_text |-> answer_text,
                             images |-> images_resp,
                             context |-> context,
                             meta |-> [top_k_text |-> TopKText, top_k_image |-> TopKImage,
                                       qdrant_collections |-> [text |-> TextCollection,
                                                               image |-> ImageCollection],
                                       embedding_dims |-> [text |-> TextDim, image |-> ImageDim]]]
    /\ next_uuid' = next_uuid + 1
    /\ pc' = "q_done"
    /\ UNCHANGED <<api_key_present, pdf_id, text_blocks, image_blocks, text_points,
                   image_points, s3_keys, s3_objects, clock>>
    /\ UNCHANGED <<store_text, store_image, error>>
    /\ UNCHANGED normVars
    /\ UNCHANGED <<question, generator, client, text_vec, image_query_vec, text_hits,
                   image_hits, images_resp, search_ret>>
    /\ UNCHANGED dbVars
    /\ UNCHANGED singletonVars

(* the client answer_question is run against: search(query_vector=,       *)
(* query_filter=) answering with a list                                    *)
QueryClients ==
    { [methods |-> {"search"}, filter_name |-> "query_filter", vector_name |-> "query",
       wraps |-> FALSE, complaint |-> "AssertionError"] }

InitQuery ==
    /\ pc = "q_call"
    /\ question \in Questions
    /\ generator \in Generators
    /\ client \in QueryClients
    /\ api_key_present \in BOOLEAN
    /\ text_vec = <<>>
    /\ image_query_vec = <<>>
    /\ text_hits = <<>>
    /\ image_hits = <<>>
    /\ images_resp = <<>>
    /\ response = NoResponse
    /\ search_ret = <<>>
    /\ pdf_id = ""
    /\ text_blocks = <<>>
    /\ image_blocks = <<>>
    /\ text_points = <<>>
    /\ image_points = <<>>
    /\ s3_keys = <<>>
    /\ calls = <<>>
    /\ store_text = {}
    /\ store_image = {}
    /\ s3_objects = {}
    /\ error = NoError
    /\ next_uuid = 1
    /\ clock = 1
    /\ scores = <<>>
    /\ norm_out = <<>>
    /\ NoInfra

NextQuery ==
    \/ QueryCall
    \/ QueryEmbedText
    \/ QueryEmbedImageSpace
    \/ QuerySearchText
    \/ QuerySearchImages
    \/ QueryPresign
    \/ QueryGenerate

SpecQuery == InitQuery /\ [][NextQuery]_vars

(***************************************************************************)
(* Claims about answer_question.  Scores of a response are in millionths.  *)
(***************************************************************************)
Returned == pc = "q_done" /\ response.returned

SearchSucceeded(collection) ==
    \E i \in CallIdx("search") : calls[i].collection = collection /\ calls[i].ok

BothSearchesSucceeded == SearchSucceeded(TextCollection) /\ SearchSucceeded(ImageCollection)

(***************************************************************************)
(* C12: in every response each text chunk has image_score 0 and            *)
(* fused_score = 0.6 * text_score, each image has text_score 0 and         *)
(* fused_score = 0.4 * image_score; no text fused score exceeds 0.6 and no *)
(* image fused score exceeds 0.4.                                          *)
(***************************************************************************)
C12_FusedScores ==
    Returned =>
        /\ \A i \in 1..Len(response.context.text_chunks) :
              LET sc == response.context.text_chunks[i].scores IN
              /\ sc.image_score = 0
              /\ 10 * sc.fused_score = TextWeight * sc.text_score
              /\ sc.fused_score <= 100000 * TextWeight
        /\ \A i \in 1..Len(response.images) :
              LET sc == response.images[i].scores IN
              /\ sc.text_score = 0
              /\ 10 * sc.fused_score = ImageWeight * sc.image_score
              /\ sc.fused_score <= 100000 * ImageWeight

(***************************************************************************)
(* C13: when the text search returned exactly one hit and the image search *)
(* none, answer_question returns (it does not raise), the response has one *)
(* text chunk with text_score 1.0 and fused_score 0.6, its images lists    *)
(* (top level and context) are empty, and no pre-signed URL was requested. *)
(***************************************************************************)
C13_SingleTextHit ==
    (BothSearchesSucceeded /\ Len(text_hits) = 1 /\ image_hits = <<>>) =>
        /\ pc # "raised"
        /\ CallIdx("presign") = {}
        /\ Returned =>
              /\ Len(response.context.text_chunks) = 1
              /\ response.context.text_chunks[1].scores.text_score = 1000000
              /\ response.context.text_chunks[1].scores.fused_score = 600000
              /\ response.images = <<>>
              /\ response.context.images = <<>>

C13_Witness ==
    /\ Returned
    /\ Len(text_hits) = 1
    /\ image_hits = <<>>
    /\ Len(response.context.text_chunks) = 1

(***************************************************************************)
(* C14: the images of a response are exactly the image hits whose payload  *)
(* has a non-empty storage key, in ranked order, each with the URL of one  *)
(* presign call made with the configured TTL; a hit with a missing or      *)
(* empty key, or without payload, is in no response and in no presign call.*)
(***************************************************************************)
HasStorageKey(hit) ==
    /\ hit.payload # NoneValue
    /\ "image_s3_key" \in DOMAIN hit.payload
    /\ hit.payload.image_s3_key # EmptyKey

KeyedImageHits == SelectSeq(image_hits, HasStorageKey)

PresignCalls == SelectSeq(calls, LAMBDA c : c.op = "presign")

C14_ImagesAreKeyedHits ==
    /\ Len(PresignCalls) <= Len(KeyedImageHits)
    /\ \A i \in 1..Len(PresignCalls) :
          /\ PresignCalls[i].s3_key = KeyedImageHits[i].payload.image_s3_key
          /\ PresignCalls[i].ttl_seconds = UrlTtl
    /\ Returned =>
          /\ Len(response.images) = Len(KeyedImageHits)
          /\ Len(PresignCalls) = Len(KeyedImageHits)
          /\ response.context.images = response.images
          /\ \A i \in 1..Len(response.images) :
                /\ response.images[i].s3_key = KeyedImageHits[i].payload.image_s3_key
                /\ response.images[i].id = KeyedImageHits[i].payload.id
                /\ response.images[i].presigned_url = PresignCalls[i].url
                /\ response.images[i].presigned_url.key = response.images[i].s3_key
                /\ response.images[i].presigned_url.expires_in = UrlTtl
                /\ response.images[i].ttl_seconds = UrlTtl

C14_Witness ==
    /\ Returned
    /\ Len(image_hits) = 2
    /\ ~HasStorageKey(image_hits[1])
    /\ HasStorageKey(image_hits[2])
    /\ Len(response.images) = 1

(***************************************************************************)
(* C15, as claimed: no failure of the answer generator makes               *)
(* answer_question raise; once both searches have succeeded it always      *)
(* returns, and the answer_text of the response is the generator's text or *)
(* the templated fallback made of the previews of at most the first three  *)
(* text chunks.                                                            *)
(***************************************************************************)
TopThreePreviews ==
    LET n == IF Len(text_hits) < 3 THEN Len(text_hits) ELSE 3
        previews == [i \in 1..n |-> text_hits[i].payload.chunk_text_preview]
    IN SelectSeq(previews, LAMBDA p : p # <<>>)

ExpectedFallbackBody ==
    LET parts == [i \in 1..Len(TopThreePreviews) |-> Strip(TopThreePreviews[i])]
    IN IF \A i \in 1..Len(parts) : parts[i] = <<>> THEN NoContextFound ELSE Join(parts)

GenerateCalls == SelectSeq(calls, LAMBDA c : c.op = "generate")

AnswerIsTextOrFallback ==
    /\ Len(GenerateCalls) = 1
    /\ \/ /\ response.answer_text.template = "llm"
          /\ generator = "gemini"
          /\ ~GenerateCalls[1].llm_raised
          /\ HasVisibleChar(response.answer_text.body)
       \/ /\ response.answer_text.template = "Answer (no LLM available)"
          /\ generator = "fallback_class"
          /\ response.answer_text.body = ExpectedFallbackBody
       \/ /\ response.answer_text.template = "Based on the retrieved context"
          /\ generator # "fallback_class"
          /\ response.answer_text.body = ExpectedFallbackBody

C15_GeneratorNeverRaises ==
    BothSearchesSucceeded =>
        /\ pc # "raised"
        /\ Returned => AnswerIsTextOrFallback

(***************************************************************************)
(* C15, amended: the same, once both searches and every pre-signed URL     *)
(* request have succeeded; a failing pre-signed URL request makes          *)
(* answer_question raise before the generator is called.                   *)
(***************************************************************************)
PresignFailed == \E i \in 1..Len(PresignCalls) : ~PresignCalls[i].ok

C15_GeneratorNeverRaisesAfterPresign ==
    /\ (BothSearchesSucceeded /\ ~PresignFailed) =>
          /\ pc # "raised"
          /\ Returned => AnswerIsTextOrFallback
    /\ PresignFailed => pc = "raised" /\ GenerateCalls = <<>> /\ error = PresignError

C15_Witness ==
    /\ Returned
    /\ Len(text_hits) >= 4
    /\ generator = "gemini"
    /\ GenerateCalls[1].llm_raised
    /\ response.answer_text.body = <<"a", "\n\n", "b">>

(***************************************************************************)
(* C16: a question that is not a string, is empty or holds only whitespace *)
(* makes answer_question raise its validation error before any embedding,  *)
(* search, presign or generation call.                                     *)
(***************************************************************************)
ValidQuestion == question.is_str /\ HasVisibleChar(question.chars)

C16_QuestionValidated ==
    ~ValidQuestion =>
        /\ pc \in {"q_call", "raised"}
        /\ calls = <<>>
        /\ response = NoResponse
        /\ pc = "raised" => error = QuestionValueError

C16_Witness ==
    /\ pc = "raised"
    /\ question = [is_str |-> TRUE, chars |-> <<" ">>]
    /\ error = QuestionValueError

(***************************************************************************)
(* C17: when an embedding of the question (text space or image space) or a *)
(* search (text or image collection) fails, answer_question raises that    *)
(* error: no response is returned and no call (presign, generator or any   *)
(* other) follows the failed one.                                          *)
(***************************************************************************)
FailedRetrievalCalls ==
    {i \in CallIdx("embed_text") \cup CallIdx("embed_text_to_image_space") \cup CallIdx("search") :
        ~calls[i].ok}

C17_RetrievalFailuresPropagate ==
    \A i \in FailedRetrievalCalls :
       /\ pc = "raised"
       /\ error = calls[i].error
       /\ response = NoResponse
       /\ i = Len(calls)
       /\ CallIdx("presign") = {}
       /\ CallIdx("generate") = {}

C17_Witness ==
    /\ pc = "raised"
    /\ \E i \in CallIdx("search") :
          calls[i].collection = ImageCollection /\ ~calls[i].ok /\ SearchSucceeded(TextCollection)

(***************************************************************************)
(* search_text and search_images called directly, against any client       *)
(***************************************************************************)
SearchVectors(collection) ==
    { [len |-> 0, support |-> {}, of |-> <<"q">>],
      [len |-> CollectionDim(collection), support |-> {1}, of |-> <<"q">>] }

SearchFinished(ret) ==
    /\ search_ret' = ret.value
    /\ error' = ret.error
    /\ pc' = IF ret.ok THEN "search_done" ELSE "raised"

(* a repository serves any number of searches; the model follows two, the  *)
(* first with any arguments, the second with valid ones                    *)
FirstSearch == calls = <<>>

SecondSearch == Len(calls) = 1 /\ pc \in {"search_done", "raised"}

SearchArguments(collection) ==
    IF FirstSearch
    THEN [query_vector : SearchVectors(collection), top_k : {0, 2}, filters : SearchFilters]
    ELSE [query_vector : {v \in SearchVectors(collection) : v.len > 0}, top_k : {2},
          filters : {NoFilters}]

SearchResults(collection, top_k) ==
    IF collection = TextCollection
    THEN IF FirstSearch THEN TextHitLists(top_k) ELSE {<<>>}
    ELSE IF FirstSearch THEN StoredImageHitLists(top_k) ELSE {<<>>}

RepoSearchText ==
    /\ FirstSearch \/ SecondSearch
    /\ \E args \in SearchArguments(TextCollection) :
       \E query_vector \in {args.query_vector}, top_k \in {args.top_k}, filters \in {args.filters} :
       \E script \in Scripts, result \in SearchResults(TextCollection, top_k) :
       \E ret \in {SearchCollection(client, query_vector, top_k, filters, script, result)} :
          /\ calls' = Append(calls, SearchCall(TextCollection, query_vector, top_k, filters, ret))
          /\ SearchFinished(ret)
    /\ UNCHANGED <<store_text, store_image>>
    /\ UNCHANGED ingestVars
    /\ UNCHANGED normVars
    /\ UNCHANGED <<question, generator, client, text_vec, image_query_vec, text_hits,
                   image_hits, images_resp, response>>
    /\ UNCHANGED dbVars
    /\ UNCHANGED singletonVars

RepoSearchImages ==
    /\ FirstSearch \/ SecondSearch
    /\ \E args \in SearchArguments(ImageCollection) :
       \E query_vector \in {args.query_vector}, top_k \in {args.top_k}, filters \in {args.filters} :
       \E script \in Scripts, result \in SearchResults(ImageCollection, top_k) :
       \E ret \in {SearchCollection(client, query_vector, top_k, filters, script, result)} :
          /\ calls' = Append(calls, SearchCall(ImageCollection, query_vector, top_k, filters, ret))
          /\ SearchFinished(ret)
    /\ UNCHANGED <<store_text, store_image>>
    /\ UNCHANGED ingestVars
    /\ UNCHANGED normVars
    /\ UNCHANGED <<question, generator, client, text_vec, image_query_vec, text_hits,
                   image_hits, images_resp, response>>
    /\ UNCHANGED dbVars
    /\ UNCHANGED singletonVars

InitSearch ==
    /\ pc = "search_call"
    /\ client \in Clients
    /\ question = [is_str |-> TRUE, chars |-> <<>>]
    /\ generator = "none"
    /\ text_vec = <<>>
    /\ image_query_vec = <<>>
    /\ text_hits = <<>>
    /\ image_hits = <<>>
    /\ images_resp = <<>>
    /\ response = NoResponse
    /\ search_ret = <<>>
    /\ api_key_present = TRUE
    /\ pdf_id = ""
    /\ text_blocks = <<>>
    /\ image_blocks = <<>>
    /\ text_points = <<>>
    /\ image_points = <<>>
    /\ s3_keys = <<>>
    /\ calls = <<>>
    /\ store_text = {}
    /\ store_image = {}
    /\ s3_objects = {}
    /\ error = NoError
    /\ next_uuid = 1
    /\ clock = 1
    /\ scores = <<>>
    /\ norm_out = <<>>
    /\ NoInfra

NextSearch == RepoSearchText \/ RepoSearchImages

SpecSearch == InitSearch /\ [][NextSearch]_vars

(***************************************************************************)
(* Claims about search_text and search_images                              *)
(***************************************************************************)
SearchCalls == { c \in 1..Len(calls) : calls[c].op = "search" }

ValidSearchArgs(call) == call.query_vector.len > 0 /\ call.limit > 0

OtherError(attempt) == ~attempt.ok /\ attempt.error.kind # "parameter_shape"

(* pc, error and search_ret hold the outcome of the latest search          *)
Latest(c) == c = Len(calls)

(* C18: an error of the client that is not a parameter-shape error ends    *)
(* the search: no attempt follows it, and the search raises that error.    *)
C18_OtherErrorsPropagate ==
    \A c \in SearchCalls :
       \A i \in 1..Len(calls[c].attempts) :
          OtherError(calls[c].attempts[i])
             => /\ i = Len(calls[c].attempts)
                /\ ~calls[c].ok
                /\ calls[c].error = calls[c].attempts[i].error
                /\ Latest(c) => error = calls[c].attempts[i].error

(* the client has a search method, takes the vector under the name the     *)
(* first attempt uses, and lacks `search` or takes the filter as `filter`  *)
AlternateOnly(cl) ==
    /\ cl.methods # {}
    /\ "search" \in cl.methods \/ cl.vector_name = "query"
    /\ "search" \notin cl.methods \/ cl.filter_name = "filter"

ServerHealthy(call) ==
    \A i \in 1..Len(call.attempts) : ~OtherError(call.attempts[i])

LastAttempt(call) == call.attempts[Len(call.attempts)]

C20_NoKnownMethod ==
    \A c \in SearchCalls :
       client.methods = {}
          => /\ ~calls[c].ok
             /\ calls[c].attempts = <<>>
             /\ ValidSearchArgs(calls[c])
                   => /\ calls[c].error.kind = "configuration"
                      /\ calls[c].error.type = "RuntimeError"
             /\ Latest(c) => pc = "raised" /\ error = calls[c].error

C20_Witness ==
    /\ client.methods = {}
    /\ pc = "raised"
    /\ error.kind = "configuration"
    /\ \E c \in SearchCalls : ValidSearchArgs(calls[c]) /\ calls[c].collection = ImageCollection

(* the predicate the `filters` argument stands for                         *)
SentAsNoFilter(flt) == flt = NoneValue

SentAsConjunction(flt, items) ==
    /\ DOMAIN flt = {"must"}
    /\ Len(flt.must) = Len(items)
    /\ \A i \in 1..Len(items) :
          /\ DOMAIN flt.must[i] = {"key", "match"}
          /\ flt.must[i].key = items[i].field
          /\ DOMAIN flt.must[i].match = {"value"}
          /\ flt.must[i].match.value = items[i].value

(* C21: every request of a search carries no filter when `filters` is None *)
(* or an empty map, and otherwise the conjunction of one equality          *)
(* condition per entry of the map, on that entry's field and value.        *)
C21_FilterTranslation ==
    \A c \in SearchCalls :
       \A i \in 1..Len(calls[c].attempts) :
          IF calls[c].filters.is_none \/ calls[c].filters.items = <<>>
          THEN SentAsNoFilter(calls[c].attempts[i].flt)
          ELSE SentAsConjunction(calls[c].attempts[i].flt, calls[c].filters.items)

C21_Witness ==
    \E c \in SearchCalls :
       /\ Len(calls[c].filters.items) = 2
       /\ Len(calls[c].attempts) = 2
       /\ calls[c].ok
       /\ Len(calls[c].attempts[2].flt.must) = 2

(***************************************************************************)
(* build_text_payload and build_image_payload called directly (schema.py)  *)
(***************************************************************************)
(* no ingest_pdf is running and the stores are empty                       *)
NoIngest ==
    /\ api_key_present = TRUE
    /\ pdf_id = ""
    /\ text_blocks = <<>>
    /\ image_blocks = <<>>
    /\ text_points = <<>>
    /\ image_points = <<>>
    /\ s3_keys = <<>>
    /\ store_text = {}
    /\ store_image = {}
    /\ s3_objects = {}
    /\ next_uuid = 1

(* a text one character longer than the preview limit                      *)
LongText == [i \in 1..(PreviewLimit + 1) |-> "x"]

OptionalTitles == {NoneValue, [chars |-> <<"T">>]}

OptionalTags ==
    {NoTags, [is_none |-> FALSE, items |-> <<>>], [is_none |-> FALSE, items |-> <<"t">>]}

TextPayloadArgs ==
    [point_id : {1}, source_pdf_id : {"doc-1"}, page_number : {1}, chunk_id : {ChunkId(1)},
     chunk_text_preview : {<<"a">>, LongText}, char_start : {0}, char_end : {PreviewLimit + 1},
     embedding_model_name : {TextModelName}, doc_title : OptionalTitles, tags : OptionalTags]

ImagePayloadArgs ==
    [point_id : {1}, source_pdf_id : {"doc-1"}, page_number : {1},
     image_s3_key : {UploadKey("doc-1", 1, 1, "image/png")}, mime_type : {"image/png"},
     width_px : {64}, height_px : {64}, embedding_model_name : {ImageModelName},
     caption_text : {NoneValue}, alt_text : {NoneValue},
     doc_title : OptionalTitles, tags : OptionalTags]

(* _now_iso(): the clock may or may not have advanced since the last call  *)
Tick == clock' \in {clock, clock + 1}

BuildTextCall ==
    /\ pc = "build"
    /\ Len(calls) < MaxBuildCalls
    /\ Tick
    /\ \E a \in TextPayloadArgs :
          calls' = Append(calls,
              [op |-> "build_text_payload", args |-> a,
               payload |-> BuildTextPayload(a.point_id, a.source_pdf_id, a.page_number,
                               a.chunk_id, a.chunk_text_preview, a.char_start, a.char_end,
                               a.embedding_model_name, a.doc_title, a.tags, clock')])
    /\ UNCHANGED <<pc, error, api_key_present, pdf_id, text_blocks, image_blocks,
                   text_points, image_points, s3_keys, store_text, store_image,
                   s3_objects, next_uuid>>
    /\ UNCHANGED normVars
    /\ UNCHANGED queryVars
    /\ UNCHANGED dbVars
    /\ UNCHANGED singletonVars

BuildImageCall ==
    /\ pc = "build"
    /\ Len(calls) < MaxBuildCalls
    /\ Tick
    /\ \E a \in ImagePayloadArgs :
          calls' = Append(calls,
              [op |-> "build_image_payload", args |-> a,
               payload |-> BuildImagePayload(a.point_id, a.source_pdf_id, a.page_number,
                               a.image_s3_key, a.mime_type, a.width_px, a.height_px,
                               a.embedding_model_name, a.caption_text, a.alt_text,
                               a.doc_title, a.tags, clock')])
    /\ UNCHANGED <<pc, error, api_key_present, pdf_id, text_blocks, image_blocks,
                   text_points, image_points, s3_keys, store_text, store_image,
                   s3_objects, next_uuid>>
    /\ UNCHANGED normVars
    /\ UNCHANGED queryVars
    /\ UNCHANGED dbVars
    /\ UNCHANGED singletonVars

InitBuild ==
    /\ pc = "build"
    /\ calls = <<>>
    /\ error = NoError
    /\ clock = 1
    /\ scores = <<>>
    /\ norm_out = <<>>
    /\ NoIngest
    /\ NoQuery
    /\ NoInfra

NextBuild == BuildTextCall \/ BuildImageCall

SpecBuild == InitBuild /\ [][NextBuild]_vars

BuilderCalls(op) == { c \in 1..Len(calls) : calls[c].op = op }

SameButCreatedAt(p, q) ==
    /\ DOMAIN p = DOMAIN q
    /\ \A f \in DOMAIN p \ {"created_at"} : p[f] = q[f]

C23_PreviewIsPrefix ==
    \A c \in BuilderCalls("build_text_payload") :
       LET given == calls[c].args.chunk_text_preview
           preview == calls[c].payload.chunk_text_preview
       IN /\ Len(preview) <= 500
          /\ Len(preview) = MinOf(500, Len(given))
          /\ \A i \in 1..Len(preview) : preview[i] = given[i]

(***************************************************************************)
(* ensure_collections_exist (collections.py) and the constructors that     *)
(* call it                                                                 *)
(***************************************************************************)
CollectionNames == {TextCollection, ImageCollection}

(* a collection is missing, or exists with some of the payload indexes     *)
CollectionStates ==
    {[exists |-> FALSE, indexes |-> {}]} \cup [exists : {TRUE}, indexes : SUBSET IndexFields]

(* _existing_collections                                                   *)
ExistingCollections(cols) == { c \in CollectionNames : cols[c].exists }

(* lines 29-43 and 47-61: create_collection, then the two indexes          *)
CreateSteps(name) ==
    << [op |-> "create_collection", collection |-> name, field |-> ""],
       [op |-> "create_payload_index", collection |-> name, field |-> "source_pdf_id"],
       [op |-> "create_payload_index", collection |-> name, field |-> "page_number"] >>

(* the client calls that follow get_collections, for the names it returned *)
EnsureSteps(existing) ==
    (IF TextCollection \notin existing THEN CreateSteps(TextCollection) ELSE <<>>)
    \o (IF ImageCollection \notin existing THEN CreateSteps(ImageCollection) ELSE <<>>)

(* the server after one accepted request                                   *)
ApplyStep(cols, step) ==
    IF step.op = "create_collection"
    THEN [cols EXCEPT ![step.collection] = [exists |-> TRUE, indexes |-> {}]]
    ELSE [cols EXCEPT ![step.collection].indexes = @ \cup {step.field}]

RECURSIVE ApplySteps(_, _, _)
ApplySteps(cols, steps, n) ==
    IF n = 0 THEN cols ELSE ApplyStep(ApplySteps(cols, steps, n - 1), steps[n])

GetCollections == [op |-> "get_collections", collection |-> "", field |-> ""]

(* ensure_collections_exist: fail_at = 0 when every request is answered,   *)
(* 1 when get_collections raises, k + 1 when the k-th later request raises *)
EnsureCollectionsExist(cols, fail_at) ==
    LET steps == EnsureSteps(ExistingCollections(cols)) IN
    IF fail_at = 1
    THEN [ok |-> FALSE, collections |-> cols, requests |-> <<GetCollections>>,
          error |-> VectorDbError]
    ELSE IF fail_at = 0 \/ fail_at > Len(steps) + 1
         THEN [ok |-> TRUE, collections |-> ApplySteps(cols, steps, Len(steps)),
               requests |-> <<GetCollections>> \o steps, error |-> NoError]
         ELSE [ok |-> FALSE, collections |-> ApplySteps(cols, steps, fail_at - 2),
               requests |-> <<GetCollections>> \o SubSeq(steps, 1, fail_at - 1),
               error |-> VectorDbError]

FailurePoints(cols) == 0..(Len(EnsureSteps(ExistingCollections(cols))) + 1)

EnsureLog(caller, ret) ==
    [op |-> "ensure_collections_exist", caller |-> caller, ok |-> ret.ok,
     requests |-> ret.requests, before |-> collections, after |-> ret.collections]

(* IngestionPipeline.__init__: the error of ensure_collections_exist       *)
(* leaves the constructor                                                  *)
IngestionConstruct ==
    /\ pc = "ensure"
    /\ Len(calls) < MaxEnsureCalls
    /\ \E fail_at \in FailurePoints(collections) :
       \E ret \in {EnsureCollectionsExist(collections, fail_at)} :
          /\ collections' = ret.collections
          /\ calls' = Append(calls, EnsureLog("IngestionPipeline", ret))
          /\ error' = ret.error
    /\ UNCHANGED <<pc, clock>>
    /\ UNCHANGED ingestVars
    /\ UNCHANGED <<store_text, store_image>>
    /\ UNCHANGED normVars
    /\ UNCHANGED queryVars
    /\ UNCHANGED singletonVars

(* QueryPipeline.__init__: the same call inside try/except: pass           *)
QueryConstruct ==
    /\ pc = "ensure"
    /\ Len(calls) < MaxEnsureCalls
    /\ \E fail_at \in FailurePoints(collections) :
       \E ret \in {EnsureCollectionsExist(collections, fail_at)} :
          /\ collections' = ret.collections
          /\ calls' = Append(calls, EnsureLog("QueryPipeline", ret))
          /\ error' = NoError
    /\ UNCHANGED <<pc, clock>>
    /\ UNCHANGED ingestVars
    /\ UNCHANGED <<store_text, store_image>>
    /\ UNCHANGED normVars
    /\ UNCHANGED queryVars
    /\ UNCHANGED singletonVars

InitCollections ==
    /\ pc = "ensure"
    /\ collections \in [CollectionNames -> CollectionStates]
    /\ calls = <<>>
    /\ error = NoError
    /\ clock = 1
    /\ scores = <<>>
    /\ norm_out = <<>>
    /\ NoIngest
    /\ NoQuery
    /\ accessor = "none"
    /\ global_client = 0
    /\ bucket_name = FALSE
    /\ tpc = <<>>
    /\ tlocal = <<>>
    /\ tret = <<>>
    /\ constructions = 0

NextCollections == IngestionConstruct \/ QueryConstruct

SpecCollections == InitCollections /\ [][NextCollections]_vars

WriteRequests(call) ==
    { i \in 1..Len(call.requests) :
         call.requests[i].op \in {"create_collection", "create_payload_index", "upsert"} }

(* C24: constructing a QueryPipeline sends no write to the vector          *)
(* database and leaves the collections as they were.                       *)
C24_QueryOnlyReads ==
    \A c \in 1..Len(calls) :
       calls[c].caller = "QueryPipeline"
          => /\ WriteRequests(calls[c]) = {}
             /\ calls[c].after = calls[c].before

Indexed(cols) ==
    \A c \in CollectionNames : cols[c].exists /\ IndexFields \subseteq cols[c].indexes

(* C25: when the last ensure_collections_exist call returned, both         *)
(* collections exist and each has the indexes on source_pdf_id,            *)
(* page_number and tags.                                                   *)
C25_CollectionsIndexed ==
    (calls # <<>> /\ calls[Len(calls)].ok) => Indexed(collections)

(***************************************************************************)
(* The process-wide handles: _init_client of infra/qdrant_client.py and of *)
(* infra/s3_client.py, called by several threads at once.  A step is what  *)
(* a thread does between two points where another thread can run: the     *)
(* test of the globals, the construction of a client, the assignment of a  *)
(* global, the connectivity check, the final read of the global.           *)
(***************************************************************************)
Threads == 1..MaxThreads

Accessors == {"qdrant", "s3"}

(* `_client is not None` / `_s3_client is not None and _bucket_name is not *)
(* None`                                                                   *)
Initialized ==
    IF accessor = "qdrant" THEN global_client # 0 ELSE global_client # 0 /\ bucket_name

SingletonFrame ==
    /\ UNCHANGED <<pc, calls, error, clock, store_text, store_image, accessor>>
    /\ UNCHANGED ingestVars
    /\ UNCHANGED normVars
    /\ UNCHANGED queryVars
    /\ UNCHANGED dbVars

(* the test at the top of _init_client                                     *)
ThreadCheck(t) ==
    /\ tpc[t] = "check"
    /\ IF Initialized
       THEN tpc' = [tpc EXCEPT ![t] = "done"] /\ tret' = [tret EXCEPT ![t] = global_client]
       ELSE tpc' = [tpc EXCEPT ![t] = "construct"] /\ UNCHANGED tret
    /\ UNCHANGED <<global_client, bucket_name, tlocal, constructions>>
    /\ SingletonFrame

(* QdrantClient(url=..., api_key=...) / boto3.client("s3", ...)            *)
ThreadConstruct(t) ==
    /\ tpc[t] = "construct"
    /\ \/ /\ constructions' = constructions + 1
          /\ tlocal' = [tlocal EXCEPT ![t] = constructions + 1]
          /\ tpc' = [tpc EXCEPT ![t] = "store"]
       \/ /\ tpc' = [tpc EXCEPT ![t] = "raised"]
          /\ UNCHANGED <<constructions, tlocal>>
    /\ UNCHANGED <<global_client, bucket_name, tret>>
    /\ SingletonFrame

(* _client = ... / _s3_client = ...                                        *)
ThreadStore(t) ==
    /\ tpc[t] = "store"
    /\ global_client' = tlocal[t]
    /\ tpc' = [tpc EXCEPT ![t] = IF accessor = "qdrant" THEN "verify" ELSE "bucket"]
    /\ UNCHANGED <<bucket_name, tlocal, tret, constructions>>
    /\ SingletonFrame

(* _client.get_collections()                                               *)
ThreadVerify(t) ==
    /\ tpc[t] = "verify"
    /\ \E answered \in BOOLEAN :
          tpc' = [tpc EXCEPT ![t] = IF answered THEN "return" ELSE "raised"]
    /\ UNCHANGED <<global_client, bucket_name, tlocal, tret, constructions>>
    /\ SingletonFrame

(* _bucket_name = settings.s3_bucket_name                                  *)
ThreadSetBucket(t) ==
    /\ tpc[t] = "bucket"
    /\ bucket_name' = TRUE
    /\ tpc' = [tpc EXCEPT ![t] = "return"]
    /\ UNCHANGED <<global_client, tlocal, tret, constructions>>
    /\ SingletonFrame

(* return _client / return _s3_client                                      *)
ThreadReturn(t) ==
    /\ tpc[t] = "return"
    /\ tret' = [tret EXCEPT ![t] = global_client]
    /\ tpc' = [tpc EXCEPT ![t] = "done"]
    /\ UNCHANGED <<global_client, bucket_name, tlocal, constructions>>
    /\ SingletonFrame

InitSingleton ==
    /\ pc = "threads"
    /\ accessor \in Accessors
    /\ global_client = 0
    /\ bucket_name = FALSE
    /\ tpc = [t \in Threads |-> "check"]
    /\ tlocal = [t \in Threads |-> 0]
    /\ tret = [t \in Threads |-> 0]
    /\ constructions = 0
    /\ collections = ReadyCollections
    /\ calls = <<>>
    /\ error = NoError
    /\ clock = 1
    /\ scores = <<>>
    /\ norm_out = <<>>
    /\ NoIngest
    /\ NoQuery

NextSingleton ==
    \E t \in Threads :
       \/ ThreadCheck(t)
       \/ ThreadConstruct(t)
       \/ ThreadStore(t)
       \/ ThreadVerify(t)
       \/ ThreadSetBucket(t)
       \/ ThreadReturn(t)

SpecSingleton == InitSingleton /\ [][NextSingleton]_vars

(* C26: whatever the interleaving of the first calls, at most one client   *)
(* is constructed and all callers are returned the same instance.          *)
C26_ConstructedOnce ==
    /\ constructions <= 1
    /\ \A t \in Threads, u \in Threads :
          (tret[t] # 0 /\ tret[u] # 0) => tret[t] = tret[u]

(***************************************************************************)
(* Further claims about ingest_pdf                                         *)
(***************************************************************************)
StoredUploadsBefore(i) == { u \in CallIdx("put_object") : u < i /\ calls[u].ok }

AllImageBytes == [k \in 1..Len(image_blocks) |-> image_blocks[k].image_bytes]

PastImageEmbedding == pc \in {"upsert_text", "upsert_image", "done"}

(* C27: when the image embedding is requested every image block has been   *)
(* uploaded and no upload follows; the images are embedded in one call     *)
(* that carries them all; after a failed upload there is no image          *)
(* embedding call and no upsert.                                           *)
C27_UploadBeforeEmbedding ==
    /\ \A i \in CallIdx("embed_images") :
          /\ Cardinality(StoredUploadsBefore(i)) = Len(image_blocks)
          /\ \A u \in CallIdx("put_object") : u < i /\ calls[u].ok
          /\ calls[i].images = AllImageBytes
    /\ Cardinality(CallIdx("embed_images")) <= 1
    /\ (PastImageEmbedding /\ image_blocks # <<>>) => Cardinality(CallIdx("embed_images")) = 1
    /\ \A u \in CallIdx("put_object") :
          ~calls[u].ok
             => /\ CallIdx("embed_images") = {}
                /\ CallIdx("upsert") = {}
                /\ pc = "raised"

C27_Witness ==
    /\ pc = "done"
    /\ Len(image_blocks) = 2
    /\ Cardinality(CallIdx("put_object")) = 2
    /\ \E i \in CallIdx("embed_images") : calls[i].ret.ok
    /\ UpsertIdx(ImageCollection) # {}

HasVisibleText(b) == HasVisibleChar(b.text)

SurvivingTextBlocks == SelectSeq(text_blocks, HasVisibleText)

UploadOf(image_bytes) ==
    { u \in CallIdx("put_object") : calls[u].ok /\ calls[u].body = image_bytes }

(* C30: in every upsert request of ingest_pdf the i-th point belongs to    *)
(* the i-th surviving block: its vector embeds that block's content, its   *)
(* page number is the block's, an image point's storage key is the one the *)
(* upload of that image returned, and the payload's id is the point's id.  *)
C30_PointsPairBlocks ==
    /\ \A u \in UpsertIdx(TextCollection) :
          /\ Len(calls[u].points) = Len(SurvivingTextBlocks)
          /\ \A i \in 1..Len(calls[u].points) :
                /\ calls[u].points[i].vector.of = SurvivingTextBlocks[i].text
                /\ calls[u].points[i].payload.page_number = SurvivingTextBlocks[i].page_number
                /\ calls[u].points[i].payload.id = calls[u].points[i].id
    /\ \A u \in UpsertIdx(ImageCollection) :
          /\ Len(calls[u].points) = Len(image_blocks)
          /\ \A i \in 1..Len(calls[u].points) :
                /\ calls[u].points[i].vector.of = image_blocks[i].image_bytes
                /\ calls[u].points[i].payload.page_number = image_blocks[i].page_number
                /\ calls[u].points[i].payload.id = calls[u].points[i].id
                /\ \E p \in UploadOf(image_blocks[i].image_bytes) :
                      calls[p].key = calls[u].points[i].payload.image_s3_key

C30_Witness ==
    /\ pc = "done"
    /\ Len(text_blocks) = 2
    /\ Len(SurvivingTextBlocks) = 1
    /\ SurvivingTextBlocks[1].page_number = 2
    /\ UpsertIdx(TextCollection) # {}
    /\ \E u \in UpsertIdx(ImageCollection) :
          /\ Len(calls[u].points) = 2
          /\ calls[u].points[1].payload.image_s3_key # calls[u].points[2].payload.image_s3_key

(* C28: with hits in descending order of raw score, the text_chunks of the *)
(* response are the text hits in their order and the images are the image  *)
(* hits that have a storage key in their order, equal scores included.     *)
C28_ResortKeepsOrder ==
    Returned =>
       /\ Len(response.context.text_chunks) = Len(text_hits)
       /\ \A i \in 1..Len(text_hits) :
             response.context.text_chunks[i].id = text_hits[i].payload.id
       /\ Len(response.images) = Len(KeyedImageHits)
       /\ \A i \in 1..Len(KeyedImageHits) :
             response.images[i].id = KeyedImageHits[i].payload.id

C28_Witness ==
    /\ Returned
    /\ Len(text_hits) = 3
    /\ text_hits[1].score # text_hits[2].score
    /\ text_hits[2].score = text_hits[3].score
    /\ Len(KeyedImageHits) = 2
    /\ image_hits[1].score = image_hits[2].score
    /\ response.context.text_chunks[3].id = 3

(***************************************************************************)
(* Searches that follow one another on the same repository                 *)
(***************************************************************************)
(* lines 34, 80, 130: the first method the client has, in the order _search *)
(* asks for them                                                           *)
PreferredMethod(cl) ==
    IF "search" \in cl.methods THEN "search"
    ELSE IF "query_points" \in cl.methods THEN "query_points" ELSE "search_points"

(* lines 36-41, 82-87, 132-137: the spelling of the first request          *)
PrimarySpelling(cl, attempt) ==
    /\ attempt.method = PreferredMethod(cl)
    /\ attempt.vector_name = (IF attempt.method = "search" THEN "query_vector" ELSE "query")
    /\ attempt.filter_name = "query_filter"

StartsWithPrimary ==
    \A c \in SearchCalls :
       /\ (ValidSearchArgs(calls[c]) /\ client.methods # {}) => calls[c].attempts # <<>>
       /\ calls[c].attempts # <<>> => PrimarySpelling(client, calls[c].attempts[1])

(* C29: every search first sends the request with the preferred method and *)
(* the primary parameter names, whatever the earlier searches met, and no  *)
(* search changes the client the repository holds.                         *)
C29_NoNegotiationState == [] StartsWithPrimary /\ [][client' = client]_vars

C29_Witness ==
    /\ Len(calls) = 2
    /\ calls[1].ok
    /\ Len(calls[1].attempts) = 2
    /\ calls[1].attempts[2].filter_name = "filter"
    /\ calls[2].attempts # <<>>
    /\ calls[2].attempts[1].filter_name = "query_filter"
    /\ Len(calls[2].attempts) = 2
    /\ calls[2].ok

====
